---- MODULE Spec2Model ----
(***************************************************************************)
(* A model of the calendar assistant's processing pipeline:                *)
(*   - RecommenderService (app/services/recommender.py): free-slot         *)
(*     generation, multi-criteria scoring, ranking;                        *)
(*   - ImporterService (app/services/importer.py): window resolution,      *)
(*     recurrence expansion, deduplication, the import cache.              *)
(*                                                                         *)
(* Time.  An aware datetime is a pair (instant, offset): the instant is    *)
(* in minutes since 00:00 of day 0 in the service timezone                 *)
(* (settings.default_timezone), the offset is the datetime's own UTC       *)
(* offset minus the service's, in minutes.  Comparison and subtraction of  *)
(* aware datetimes use the instant; .date(), .hour, .weekday() and         *)
(* isoformat() use the wall clock instant + offset.                        *)
(*                                                                         *)
(* Scores.  The floats of _score_slot are exact rationals here: a          *)
(* component is kept in units of 1/10080, a weighted score in units of     *)
(* 1/100800.                                                               *)
(***************************************************************************)
EXTENDS Integers, Sequences, FiniteSets, TLC

VARIABLES
    now,          \* recommend_slot: datetime.now(tz), instant in minutes
    wd0,          \* weekday (0 = Monday) of day 0 in the service timezone
    settings,     \* app.core.config.settings as read by RecommenderService.__init__
    request,      \* the RecommendRequest
    free_slots,   \* recommend_slot: the list _generate_free_slots returned
    scored_slots, \* recommend_slot: the scored slots before the sort
    response,     \* the RecommendResponse
    pc,           \* position in recommend_slot
    pref,         \* two candidate slots and their time-preference components
    clock,        \* the wall clock (datetime.now, datetime.utcnow), instant in minutes
    import_request,  \* the ImportRequest the client sends
    import_cache,    \* the entries of the import stage's cache file
    import_call,     \* the last import_events call: its mode and its locals
    import_response, \* the last ImportResponse
    imports,         \* import_events calls made so far
    expand,          \* one _expand_rrule call: its arguments and its result
    enrich_clock,    \* the wall clock of the enrich stage, instant in minutes
    enrich_request,  \* the EnrichRequest the client sends
    enrich_cache,    \* the entries of the enrich stage's cache file
    classifier,      \* what the classifier service does when asked about each event
    enrich_call,     \* the last enrich_events call: its mode and how it ended
    enrich_response, \* the last EnrichResponse, or the exception that left enrich_events
    enrichments,     \* enrich_events calls made so far
    cache_clock,     \* datetime.utcnow() as the cache callers read it
    cache_file,      \* the cache file of one pipeline stage
    callers,         \* the calls of CacheService in progress, one per caller
    last_store,  \* per input hash, the last store that was completed and not written over
    analyze_clock, \* the wall clock of the analyze stage, instant in minutes
    analyze_request, \* the AnalyzeRequest the client sends
    analyze_cache, \* the entries of the analyze stage's cache file
    analyze_call, \* the last analyze_habits call: its mode and its locals
    analyze_response, \* the last AnalyzeResponse
    analyses,  \* analyze_habits calls made so far
    tasks_file, \* background_tasks.json: task_id -> the stored task
    task_pc, \* per task, the operation its coroutine runs next
    task_thread, \* per task, the storage thread of its coroutine
    cancel_thread, \* the storage thread of the cancel_task call in flight
    cancel_result, \* what the last finished cancel_task call returned
    cancels,  \* number of cancel_task calls started
    key_params, \* the ics content and params of the two requests that are compared
    cache_key \* per request, <<>> or the key computed for it

recVars == <<now, wd0, settings, request, free_slots, scored_slots, response, pc>>

prefVars == <<pref>>
impVars == <<clock, import_request, import_cache, import_call, import_response, imports>>

expVars == <<expand>>

enrVars == <<enrich_clock, enrich_request, classifier, enrich_cache, enrich_call, enrich_response, enrichments>>

cacheVars == <<cache_clock, cache_file, callers, last_store>>

anaVars == <<analyze_clock, analyze_request, analyze_cache, analyze_call, analyze_response, analyses>>

taskVars == <<tasks_file, task_pc, task_thread, cancel_thread, cancel_result, cancels>>

keyVars == <<key_params, cache_key>>

vars == <<recVars, prefVars, impVars, expVars, enrVars, cacheVars, anaVars, taskVars, keyVars>>

-----------------------------------------------------------------------------
(* Bounds of the model                                                     *)

MaxEvents == 2       \* enriched events per recommend request
MaxScoreDelay == 1   \* minutes that may pass between the two datetime.now() reads
MaxItems == 2        \* raw events, plus one for a calendar text, per import request
MaxImports == 2      \* import_events calls in one behaviour
SlotsPerDay == 16    \* candidate slot starts per day that are compared

-----------------------------------------------------------------------------
(* Calendar arithmetic                                                     *)

MinPerHour == 60
MinPerDay == 1440

Max2(a, b) == IF b > a THEN b ELSE a
Min2(a, b) == IF b < a THEN b ELSE a

\* datetime.date() of an aware datetime, as a day number
DateOf(t, off) == (t + off) \div MinPerDay
\* datetime.hour and .minute
HourOf(t, off) == ((t + off) % MinPerDay) \div MinPerHour
MinuteOf(t, off) == (t + off) % MinPerHour
\* minutes since local midnight: 60 * (hour + minute / 60)
MinuteOfDay(t, off) == (t + off) % MinPerDay
\* datetime.weekday()
WeekdayOf(t, off) == (wd0 + DateOf(t, off)) % 7
\* datetime.combine(date, time(hour=h), tzinfo=service tz)
Combine(date, hour) == date * MinPerDay + hour * MinPerHour

-----------------------------------------------------------------------------
(* Settings (app/core/config.py)                                           *)

DefaultSettings ==
    [work_day_start |-> 7, work_day_end |-> 23,
     event_buffer_before |-> 10, event_buffer_after |-> 10]

\* scoring_weights, in tenths
WTimePreference == 3
WNoConflicts == 3
WWorkingHours == 2
WProximity == 2

\* one score component 1.0, and a weighted score 1.0
One == 10080
ScoreOne == 100800

-----------------------------------------------------------------------------
(* RecommenderService._generate_free_slots                                 *)

\* An enriched event is [start, end, off]; a busy interval is
\* [s, so, e, eo]: start and end instants, each with the offset of the
\* datetime object that carries it; a slot is [start, end, off].

\* BusyOf with the buffers forgotten
BusyOfNoBuffers(ev) ==
    [s |-> ev.start, so |-> ev.off, e |-> ev.end, eo |-> ev.off]

\* lines 114-116: the event's interval inflated by the buffers
BusyOf(ev) ==
    [s |-> ev.start - settings.event_buffer_before, so |-> ev.off,
     e |-> ev.end + settings.event_buffer_after, eo |-> ev.off]

\* lines 111-116: one busy interval per event that starts at or after start_from
RECURSIVE BusyIntervals(_, _)
BusyIntervals(events, start_from) ==
    IF events = <<>> THEN <<>>
    ELSE LET ev == Head(events)
             rest == BusyIntervals(Tail(events), start_from)
         IN IF ev.start >= start_from THEN <<BusyOf(ev)>> \o rest ELSE rest

\* line 119: list.sort(key=start) is stable
RECURSIVE InsertByStart(_, _)
InsertByStart(sorted, x) ==
    IF sorted = <<>> THEN <<x>>
    ELSE IF Head(sorted).s <= x.s
         THEN <<Head(sorted)>> \o InsertByStart(Tail(sorted), x)
         ELSE <<x>> \o sorted

RECURSIVE SortByStart(_)
SortByStart(seq) ==
    IF seq = <<>> THEN <<>>
    ELSE InsertByStart(SortByStart(SubSeq(seq, 1, Len(seq) - 1)), seq[Len(seq)])

\* lines 120-125: merge intervals that overlap or touch; max() keeps the
\* first of two equal datetimes
RECURSIVE MergeInto(_, _)
MergeInto(merged, rest) ==
    IF rest = <<>> THEN merged
    ELSE LET b == Head(rest)
             n == Len(merged)
         IN IF n > 0 /\ b.s <= merged[n].e
            THEN LET new == IF b.e > merged[n].e
                            THEN [merged[n] EXCEPT !.e = b.e, !.eo = b.eo]
                            ELSE merged[n]
                 IN MergeInto([merged EXCEPT ![n] = new], Tail(rest))
            ELSE MergeInto(Append(merged, b), Tail(rest))

MergedBusy(events, start_from) ==
    MergeInto(<<>>, SortByStart(BusyIntervals(events, start_from)))

\* DayStart without the 30-minute lead on day 0
DayStartNoLead(start_from, day) ==
    LET current_date == DateOf(start_from, 0) + day
    IN IF day = 0
       THEN Max2(start_from, Combine(current_date, settings.work_day_start))
       ELSE Combine(current_date, settings.work_day_start)

\* lines 128-144: the lower bound of the day's working window
DayStart(start_from, day) ==
    LET current_date == DateOf(start_from, 0) + day
    IN IF day = 0
       THEN Max2(start_from + 30, Combine(current_date, settings.work_day_start))
       ELSE Combine(current_date, settings.work_day_start)

\* lines 146-150
DayEnd(start_from, day) ==
    Combine(DateOf(start_from, 0) + day, settings.work_day_end)

\* lines 156-163: the slot carved before a busy interval
GapBefore(cur, b, duration) ==
    IF cur.t < b.s /\ b.s - cur.t >= duration
    THEN <<[start |-> cur.t, end |-> Min2(cur.t + duration, b.s), off |-> cur.off]>>
    ELSE <<>>

\* lines 154-165: walk the merged busy set of one day
RECURSIVE WalkBusy(_, _, _, _, _)
WalkBusy(cur, slots, merged, current_date, duration) ==
    IF merged = <<>> THEN [cur |-> cur, slots |-> slots]
    ELSE LET b == Head(merged)
         IN IF DateOf(b.s, b.so) <= current_date /\ current_date <= DateOf(b.e, b.eo)
            THEN WalkBusy(IF b.e > cur.t THEN [t |-> b.e, off |-> b.eo] ELSE cur,
                          slots \o GapBefore(cur, b, duration),
                          Tail(merged), current_date, duration)
            ELSE WalkBusy(cur, slots, Tail(merged), current_date, duration)

\* lines 167-173: the trailing gap up to the day's end
TrailingGap(cur, day_end, duration) ==
    IF cur.t < day_end /\ day_end - cur.t >= duration
    THEN <<[start |-> cur.t, end |-> cur.t + duration, off |-> cur.off]>>
    ELSE <<>>

\* lines 127-173: the slots of one day
DaySlots(merged, start_from, day, duration) ==
    LET w == WalkBusy([t |-> DayStart(start_from, day), off |-> 0], <<>>, merged,
                      DateOf(start_from, 0) + day, duration)
    IN w.slots \o TrailingGap(w.cur, DayEnd(start_from, day), duration)

RECURSIVE SlotsOfDays(_, _, _, _, _)
SlotsOfDays(merged, start_from, day, days_ahead, duration) ==
    IF day >= days_ahead THEN <<>>
    ELSE DaySlots(merged, start_from, day, duration)
         \o SlotsOfDays(merged, start_from, day + 1, days_ahead, duration)

GenerateFreeSlots(events, start_from, days_ahead, duration_min) ==
    SlotsOfDays(MergedBusy(events, start_from), start_from, 0, days_ahead, duration_min)

-----------------------------------------------------------------------------
(* RecommenderService._score_slot                                          *)

\* A habit window is [event_type, sh, sm, eh, em]: the "HH:MM" texts of
\* TimeWindow.start and TimeWindow.end split at ':' and read as integers
\* (lines 199-205), so that window_start = sh + sm / 60 hours.
WindowStart(window) == window.sh * 60 + window.sm
WindowEnd(window) == window.eh * 60 + window.em

\* line 194: history_habits.default_windows.get(query.event_type)
WindowsFor(query, history_habits) ==
    {w \in history_habits.default_windows : w.event_type = query.event_type}

\* lines 196-220: the time-preference component against a habit window, for a
\* slot that starts m minutes after local midnight
WindowPreference(window, m) ==
    IF WindowStart(window) <= m /\ m <= WindowEnd(window)
    THEN One
    ELSE LET distance == IF m < WindowStart(window)
                         THEN WindowStart(window) - m
                         ELSE m - WindowEnd(window)
         IN Max2(0, One - 14 * distance)

\* lines 222-234: the coarse match against query.preferred_time
CoarsePreference(preferred_time, hour) ==
    IF preferred_time = "morning" /\ 6 <= hour /\ hour < 12 THEN One
    ELSE IF preferred_time = "afternoon" /\ 12 <= hour /\ hour < 17 THEN One
    ELSE IF preferred_time = "evening" /\ 17 <= hour /\ hour < 22 THEN One
    ELSE One \div 2

\* lines 189-236
TimePreference(slot, query, history_habits) ==
    IF history_habits.present /\ query.event_type # "none"
    THEN IF WindowsFor(query, history_habits) # {}
         THEN WindowPreference(CHOOSE w \in WindowsFor(query, history_habits) : TRUE,
                               MinuteOfDay(slot.start, slot.off))
         ELSE 0
    ELSE CoarsePreference(query.preferred_time, HourOf(slot.start, slot.off))

\* lines 243-257
WorkingHours(slot) ==
    IF settings.work_day_start <= HourOf(slot.start, slot.off)
       /\ HourOf(slot.start, slot.off) < settings.work_day_end
    THEN One
    ELSE (3 * One) \div 10

\* lines 259-288: until = minutes from the second datetime.now() to the slot
Proximity(priority_type, until) ==
    IF priority_type = "high"
    THEN IF until <= 4 * 60 THEN One
         ELSE IF until <= 24 * 60 THEN (8 * One) \div 10
         ELSE IF until <= 48 * 60 THEN (6 * One) \div 10
         ELSE Max2(0, One - until)
    ELSE IF 24 * 60 <= until /\ until <= 72 * 60 THEN One
         ELSE IF until < 24 * 60 THEN (7 * One) \div 10
         ELSE Max2((3 * One) \div 10, One - (until - 72 * 60))

\* lines 292-300: Monday-morning bonus 0.05, Friday-evening penalty 0.10
Adjustments(slot) ==
    (IF WeekdayOf(slot.start, slot.off) = 0 /\ HourOf(slot.start, slot.off) < 10
     THEN ScoreOne \div 20 ELSE 0)
    - (IF WeekdayOf(slot.start, slot.off) = 4 /\ HourOf(slot.start, slot.off) >= 16
       THEN ScoreOne \div 10 ELSE 0)

\* line 303
Clamp(score) == Max2(0, Min2(ScoreOne, score))

\* lines 186-305: the score of a slot read at clock value score_now
ScoreSlot(slot, query, history_habits, score_now) ==
    Clamp(WTimePreference * TimePreference(slot, query, history_habits)
          + WNoConflicts * One
          + WWorkingHours * WorkingHours(slot)
          + WProximity * Proximity(query.priority_type, slot.start - score_now)
          + Adjustments(slot))

\* lines 187-300: the rationale lines, in the order the code appends them
Rationale(slot, query, history_habits, score_now) ==
    LET tp == TimePreference(slot, query, history_habits)
        windowed == history_habits.present /\ query.event_type # "none"
        until == slot.start - score_now
        hour == HourOf(slot.start, slot.off)
        weekday == WeekdayOf(slot.start, slot.off)
    IN (IF windowed
        THEN IF WindowsFor(query, history_habits) = {} THEN <<>>
             ELSE IF tp = One THEN <<"in_window">>
             ELSE IF 2 * tp < One THEN <<"outside_window">> ELSE <<>>
        ELSE IF tp = One THEN <<"as_requested">> ELSE <<>>)
       \o <<"no_conflicts">>
       \o (IF WorkingHours(slot) = One
           THEN IF weekday < 5 THEN <<"working_hours_weekday">>
                ELSE <<"daytime_weekend">>
           ELSE <<"off_hours">>)
       \o (IF query.priority_type = "high"
           THEN IF until <= 4 * 60 THEN <<"nearest">>
                ELSE IF until <= 24 * 60 THEN <<"within_day">>
                ELSE IF until <= 48 * 60 THEN <<"within_two_days">> ELSE <<>>
           ELSE IF 24 * 60 <= until /\ until <= 72 * 60 THEN <<"optimal">>
                ELSE IF until < 24 * 60 THEN <<"soon">> ELSE <<>>)
       \o (IF weekday = 0 /\ hour < 10 THEN <<"monday_morning">> ELSE <<>>)
       \o (IF weekday = 4 /\ hour >= 16 THEN <<"friday_evening">> ELSE <<>>)

-----------------------------------------------------------------------------
(* RecommenderService.recommend_slot                                       *)

\* lines 53-62: the slots scored in generation order; the clock read inside
\* _score_slot is start_from for the first k slots and start_from + delay after
RECURSIVE ScoreAll(_, _, _, _, _, _)
ScoreAll(slots, i, req, start_from, k, delay) ==
    IF i > Len(slots) THEN <<>>
    ELSE LET score_now == IF i > k THEN start_from + delay ELSE start_from
         IN <<[slot |-> slots[i],
               time_pref |-> TimePreference(slots[i], req.user_query, req.history_habits),
               score |-> ScoreSlot(slots[i], req.user_query, req.history_habits, score_now),
               rationale |-> Rationale(slots[i], req.user_query, req.history_habits,
                                       score_now)]>>
            \o ScoreAll(slots, i + 1, req, start_from, k, delay)

\* line 64: list.sort(key=score, reverse=True) is stable: of two slots with
\* the same score the one generated first stays first
\* InsertByScore placing a slot before the earlier slots of the same score
RECURSIVE InsertByScoreUnstable(_, _)
InsertByScoreUnstable(sorted, x) ==
    IF sorted = <<>> THEN <<x>>
    ELSE IF Head(sorted).score > x.score
         THEN <<Head(sorted)>> \o InsertByScoreUnstable(Tail(sorted), x)
         ELSE <<x>> \o sorted

RECURSIVE InsertByScore(_, _)
InsertByScore(sorted, x) ==
    IF sorted = <<>> THEN <<x>>
    ELSE IF Head(sorted).score >= x.score
         THEN <<Head(sorted)>> \o InsertByScore(Tail(sorted), x)
         ELSE <<x>> \o sorted

RECURSIVE SortByScore(_)
SortByScore(seq) ==
    IF seq = <<>> THEN <<>>
    ELSE InsertByScore(SortByScore(SubSeq(seq, 1, Len(seq) - 1)), seq[Len(seq)])

\* line 74: scored_slots[1:max_alternatives + 1], for max_alternatives >= 0
Alternatives(sorted, max_alternatives) ==
    SubSeq(sorted, 2, Min2(Len(sorted), max_alternatives + 1))

\* lines 317-328: the events that end less than 30 minutes before the slot or
\* start less than 30 minutes after it
RECURSIVE NearEvents(_, _)
NearEvents(slot, events) ==
    IF events = <<>> THEN <<>>
    ELSE LET ev == Head(events)
             time_before == slot.start - ev.end
             time_after == ev.start - slot.end
         IN (IF 0 < time_before /\ time_before < 30
             THEN <<[kind |-> "after", minutes |-> time_before]>>
             ELSE IF 0 < time_after /\ time_after < 30
                  THEN <<[kind |-> "before", minutes |-> time_after]>>
                  ELSE <<>>)
            \o NearEvents(slot, Tail(events))

\* lines 307-337
CheckConflicts(slot, events) ==
    LET day_events == {i \in 1..Len(events) :
                          DateOf(events[i].start, events[i].off)
                              = DateOf(slot.start, slot.off)}
    IN NearEvents(slot, events)
       \o (IF Cardinality(day_events) >= 5
           THEN <<[kind |-> "busy_day", minutes |-> Cardinality(day_events)]>>
           ELSE <<>>)

\* NotFoundResponse without the top-level conflict message
NotFoundResponseNoConflicts(start_from) ==
    [recommendation |-> [slot |-> [start |-> start_from, end |-> start_from, off |-> 0],
                         score |-> 0,
                         rationale |-> <<"no_free_slots">>],
     alternatives |-> <<>>,
     conflicts_found |-> <<>>,
     slots_found |-> 0]

\* lines 39-49
NotFoundResponse(start_from) ==
    [recommendation |-> [slot |-> [start |-> start_from, end |-> start_from, off |-> 0],
                         score |-> 0,
                         rationale |-> <<"no_free_slots">>],
     alternatives |-> <<>>,
     conflicts_found |-> <<[kind |-> "calendar_full", minutes |-> 0]>>,
     slots_found |-> 0]

\* lines 64-95
RankedResponse(scored, req) ==
    LET sorted == SortByScore(scored)
    IN [recommendation |-> sorted[1],
        alternatives |-> Alternatives(sorted, req.max_alternatives),
        conflicts_found |-> CheckConflicts(sorted[1].slot, req.enriched_events),
        slots_found |-> Len(scored)]

-----------------------------------------------------------------------------
(* Inputs of a recommend request                                           *)

\* settings as shipped (07:00-23:00, buffers of 10 minutes) and two
\* deployments with a 09:00-18:00 working day, with and without buffers
SettingsSet ==
    {DefaultSettings,
     [DefaultSettings EXCEPT !.work_day_start = 9, !.work_day_end = 18],
     [work_day_start |-> 9, work_day_end |-> 18,
      event_buffer_before |-> 0, event_buffer_after |-> 0]}

\* day 0 at 06:00, 08:00 and 09:10
NowSet == {6 * 60, 8 * 60, 9 * 60 + 10}

\* day 0 is a Monday or a Friday
WeekdaySet == {0, 4}

\* The events a request draws from, out of start order:
\*   1  day 0 10:00-11:00             5  day 0 10:30-11:30
\*   2  day 0 09:00-23:00             6  day 0 22:00 - day 1 08:00
\*   3  day 0 12:00-23:00             7  day 1 10:00-11:00
\*   4  day 0 09:00-12:00
\*   8  day 0 07:00-08:00, written with a UTC offset 11 hours behind the
\*      service's (20:00-21:00 of the day before on its own wall clock)
\*   9  day 0 16:30-17:30
EventPool ==
    <<[start |-> 600, end |-> 660, off |-> 0],
      [start |-> 540, end |-> 1380, off |-> 0],
      [start |-> 720, end |-> 1380, off |-> 0],
      [start |-> 540, end |-> 720, off |-> 0],
      [start |-> 630, end |-> 690, off |-> 0],
      [start |-> 1320, end |-> 1920, off |-> 0],
      [start |-> 2040, end |-> 2100, off |-> 0],
      [start |-> 420, end |-> 480, off |-> -660],
      [start |-> 990, end |-> 1050, off |-> 0]>>

\* the events of the pool with index in I, in pool order
RECURSIVE PoolEvents(_, _)
PoolEvents(I, i) ==
    IF i > Len(EventPool) THEN <<>>
    ELSE (IF i \in I THEN <<EventPool[i]>> ELSE <<>>) \o PoolEvents(I, i + 1)

EventLists ==
    {PoolEvents(I, 1) : I \in {J \in SUBSET (1..Len(EventPool)) : Cardinality(J) <= MaxEvents}}

NoHabits == [present |-> FALSE, default_windows |-> {}]

\* a query with its habit profile: no profile and a stated preference; a
\* profile with a 09:00-12:00 window for the query's category; a profile
\* that has no window for the query's category
QuerySet ==
    {[user_query |-> [duration_min |-> 60, event_type |-> "none",
                      priority_type |-> "regular", preferred_time |-> "morning"],
      history_habits |-> NoHabits],
     [user_query |-> [duration_min |-> 60, event_type |-> "work",
                      priority_type |-> "high", preferred_time |-> "none"],
      history_habits |-> [present |-> TRUE,
                          default_windows |-> {[event_type |-> "work", sh |-> 9, sm |-> 0,
                                                eh |-> 12, em |-> 0]}]],
     [user_query |-> [duration_min |-> 15, event_type |-> "work",
                      priority_type |-> "regular", preferred_time |-> "evening"],
      history_habits |-> [present |-> TRUE,
                          default_windows |-> {[event_type |-> "study", sh |-> 19, sm |-> 0,
                                                eh |-> 21, em |-> 0]}]]}

SearchDaysSet == {1, 2}
MaxAlternativesSet == {1, 3}

RequestSet ==
    {[user_query |-> q.user_query, history_habits |-> q.history_habits,
      enriched_events |-> evs, search_days |-> sd, max_alternatives |-> ma] :
        q \in QuerySet, evs \in EventLists, sd \in SearchDaysSet, ma \in MaxAlternativesSet}

-----------------------------------------------------------------------------
(* The recommend handler as a state machine                                *)

\* no recommend request is in progress
RecommenderIdle ==
    /\ now = 0
    /\ wd0 = 0
    /\ settings = DefaultSettings
    /\ request = <<>>
    /\ free_slots = <<>>
    /\ scored_slots = <<>>
    /\ response = <<>>
    /\ pc = "idle"

\* no time-preference comparison is in progress
PreferenceIdle == pref = <<>>

\* no import was requested and the import cache file is empty
ImporterIdle ==
    /\ clock = 0
    /\ import_request = <<>>
    /\ import_cache = {}
    /\ import_call = <<>>
    /\ import_response = <<>>
    /\ imports = 0

\* no _expand_rrule call is observed on its own
ExpandIdle == expand = <<>>

\* no enrichment was requested and the enrich cache file is empty
EnricherIdle ==
    /\ enrich_clock = 0
    /\ enrich_request = <<>>
    /\ classifier = <<>>
    /\ enrich_cache = {}
    /\ enrich_call = <<>>
    /\ enrich_response = <<>>
    /\ enrichments = 0

\* no caller uses the cache service on its own
CacheIdle ==
    /\ cache_clock = 0
    /\ cache_file = <<>>
    /\ callers = <<>>
    /\ last_store = <<>>

\* no analysis was requested and the analyze cache file is empty
AnalyzerIdle ==
    /\ analyze_clock = 0
    /\ analyze_request = <<>>
    /\ analyze_cache = {}
    /\ analyze_call = <<>>
    /\ analyze_response = <<>>
    /\ analyses = 0

\* no background task was created and no cancel_task call was made
TasksIdle ==
    /\ tasks_file = <<>>
    /\ task_pc = <<>>
    /\ task_thread = <<>>
    /\ cancel_thread = <<>>
    /\ cancel_result = FALSE
    /\ cancels = 0

\* no request of the import+enrich+analyze flow was made
KeysIdle ==
    /\ key_params = <<>>
    /\ cache_key = <<>>

InitRecommend ==
    /\ KeysIdle
    /\ TasksIdle
    /\ AnalyzerIdle
    /\ now \in NowSet
    /\ wd0 \in WeekdaySet
    /\ settings \in SettingsSet
    /\ request \in RequestSet
    /\ free_slots = <<>>
    /\ scored_slots = <<>>
    /\ response = <<>>
    /\ pc = "start"
    /\ PreferenceIdle
    /\ ImporterIdle
    /\ ExpandIdle
    /\ EnricherIdle
    /\ CacheIdle

\* lines 29-37
GenerateSlots ==
    /\ pc = "start"
    /\ free_slots' = GenerateFreeSlots(request.enriched_events, now, request.search_days,
                                       request.user_query.duration_min)
    /\ pc' = "generated"
    /\ UNCHANGED <<now, wd0, settings, request, scored_slots, response>>
    /\ UNCHANGED <<prefVars, impVars, expVars, enrVars, cacheVars, anaVars, taskVars, keyVars>>

\* lines 39-51
ReturnNotFound ==
    /\ pc = "generated"
    /\ free_slots = <<>>
    /\ response' = NotFoundResponse(now)
    /\ pc' = "done"
    /\ UNCHANGED <<now, wd0, settings, request, free_slots, scored_slots>>
    /\ UNCHANGED <<prefVars, impVars, expVars, enrVars, cacheVars, anaVars, taskVars, keyVars>>

\* lines 53-97
ScoreAndRank ==
    /\ pc = "generated"
    /\ free_slots # <<>>
    /\ \E k \in 0..Len(free_slots), delay \in 0..MaxScoreDelay :
          scored_slots' = ScoreAll(free_slots, 1, request, now, k, delay)
    /\ response' = RankedResponse(scored_slots', request)
    /\ pc' = "done"
    /\ UNCHANGED <<now, wd0, settings, request, free_slots>>
    /\ UNCHANGED <<prefVars, impVars, expVars, enrVars, cacheVars, anaVars, taskVars, keyVars>>

NextRecommend == GenerateSlots \/ ReturnNotFound \/ ScoreAndRank

SpecRecommend == InitRecommend /\ [][NextRecommend]_vars

-----------------------------------------------------------------------------
(* ImporterService: datetimes, the import window                           *)

\* An aware datetime of the importer is a record [t, off]: the instant and
\* the offset of its own timezone relative to the request's.
Dt(t, off) == [t |-> t, off |-> off]
\* dt + timedelta(minutes): the result keeps dt's tzinfo
Plus(dt, minutes) == [t |-> dt.t + minutes, off |-> dt.off]

\* datetime.min and datetime.max (lines 48-49): the ends of representable
\* time, beyond every instant the model draws
DatetimeMin == -40320
DatetimeMax == 40320

\* lines 43-45: 00:00 of the Monday of the week that holds the instant clk
WeekStart(clk) == Combine(DateOf(clk, 0) - WeekdayOf(clk, 0), 0)

\* lines 47-52; days_limit is <<>> for None, <<d>> otherwise
ImportWindow(req, clk) ==
    IF req.days_limit = <<>>
    THEN [start |-> DatetimeMin, end |-> DatetimeMax]
    ELSE [start |-> WeekStart(clk) - req.days_limit[1] * MinPerDay,
          end |-> WeekStart(clk) + (7 + req.days_limit[1]) * MinPerDay]

\* lines 84, 88, 227: window_start <= e.start <= window_end
StartInWindow(start_dt, window_start, window_end) ==
    window_start <= start_dt.t /\ start_dt.t <= window_end

\* _intersects, lines 360-363
Intersects(start_dt, end_dt, window_start, window_end) ==
    end_dt.t > window_start /\ start_dt.t < window_end

\* Event(...) with the private marks event._from_recurring and event._all_day
\* (hasattr is true exactly when the mark was set)
MakeEvent(calendar, start_dt, end_dt, summary, description, attendees, from_recurring, all_day) ==
    [calendar |-> calendar, start |-> start_dt, end |-> end_dt,
     summary |-> summary, description |-> description, attendees |-> attendees,
     from_recurring |-> from_recurring, all_day |-> all_day]

-----------------------------------------------------------------------------
(* ImporterService._expand_rrule                                           *)

\* A recurrence rule text is read by dateutil's rrulestr into
\* [ok, period, interval, count]: ok is FALSE when rrulestr raises; period is
\* the FREQ in minutes; count is the COUNT, 0 when the rule has none.  Its
\* occurrences are dtstart + k * interval * period, k = 0, 1, ...
RuleStep(rule) == rule.interval * rule.period

\* the index of the last occurrence that can lie before the instant `before`
LastIndex(rule, dtstart, before) ==
    LET byWindow == IF before > dtstart.t
                    THEN (before - dtstart.t) \div RuleStep(rule)
                    ELSE -1
    IN IF rule.count > 0 THEN Min2(rule.count - 1, byWindow) ELSE byWindow

RECURSIVE OccurrencesInclusiveFrom(_, _, _, _, _)
OccurrencesInclusiveFrom(rule, dtstart, after, before, k) ==
    IF k > LastIndex(rule, dtstart, before) THEN <<>>
    ELSE LET occ == dtstart.t + k * RuleStep(rule)
         IN (IF after <= occ /\ occ <= before THEN <<Dt(occ, dtstart.off)>> ELSE <<>>)
            \o OccurrencesInclusiveFrom(rule, dtstart, after, before, k + 1)

\* rule.between(after, before, inc=True)
OccurrencesInclusive(rule, dtstart, after, before) ==
    OccurrencesInclusiveFrom(rule, dtstart, after, before, 0)

RECURSIVE OccurrencesFrom(_, _, _, _, _)
OccurrencesFrom(rule, dtstart, after, before, k) ==
    IF k > LastIndex(rule, dtstart, before) THEN <<>>
    ELSE LET occ == dtstart.t + k * RuleStep(rule)
         IN (IF after < occ /\ occ < before THEN <<Dt(occ, dtstart.off)>> ELSE <<>>)
            \o OccurrencesFrom(rule, dtstart, after, before, k + 1)

\* line 260: rule.between(window_start, window_end, inc=False), in time order
Occurrences(rule, dtstart, after, before) ==
    OccurrencesFrom(rule, dtstart, after, before, 0)

\* lines 250-291
ExpandRrule(rrule_data, start_dt, end_dt, window_start, window_end, summary, description, calendar, attendees, is_all_day) ==
    LET duration == end_dt.t - start_dt.t
        occurrences == Occurrences(rrule_data, start_dt, window_start, window_end)
    IN IF rrule_data.ok
       THEN [i \in 1..Len(occurrences) |->
                MakeEvent(calendar, occurrences[i], Plus(occurrences[i], duration),
                          summary, description, attendees, TRUE, is_all_day)]
       ELSE IF Intersects(start_dt, end_dt, window_start, window_end)
            THEN <<MakeEvent(calendar, start_dt, end_dt, summary, description,
                             attendees, FALSE, is_all_day)>>
            ELSE <<>>

-----------------------------------------------------------------------------
(* ImporterService: raw events                                             *)

\* The text of RawEvent.start / RawEvent.end is [kind, wall, off]:
\*   "empty"    the empty string
\*   "garbage"  a text dateutil's parser rejects
\*   "naive"    a wall-clock time without a UTC offset
\*   "aware"    a wall-clock time with a UTC offset
\* _parse_datetime_string, lines 326-344: <<>> is None
ParseDatetimeString(dt_str) ==
    IF dt_str.kind = "empty" \/ dt_str.kind = "garbage" THEN <<>>
    ELSE IF dt_str.kind = "naive" THEN <<Dt(dt_str.wall, 0)>>
    ELSE <<Dt(dt_str.wall - dt_str.off, dt_str.off)>>

\* _normalize_event, lines 293-324: <<>> is None
NormalizeEvent(raw_event) ==
    LET start_dt == ParseDatetimeString(raw_event.start)
        end_dt == ParseDatetimeString(raw_event.end)
    IN IF start_dt = <<>> \/ end_dt = <<>> THEN <<>>
       ELSE <<MakeEvent(raw_event.calendar, start_dt[1],
                        IF end_dt[1].t <= start_dt[1].t
                        THEN Plus(start_dt[1], MinPerHour) ELSE end_dt[1],
                        raw_event.summary, raw_event.description,
                        raw_event.attendees, FALSE, raw_event.all_day)>>

\* lines 65-85: what one raw event adds to the list
RawEventEvents(raw_event, expand_recurring, window_start, window_end) ==
    LET normalized == NormalizeEvent(raw_event)
    IN IF normalized = <<>> THEN <<>>
       ELSE IF raw_event.rrule # <<>> /\ expand_recurring
       THEN ExpandRrule(raw_event.rrule[1], normalized[1].start, normalized[1].end,
                        window_start, window_end, normalized[1].summary,
                        normalized[1].description, normalized[1].calendar,
                        normalized[1].attendees, raw_event.all_day)
       ELSE IF StartInWindow(normalized[1].start, window_start, window_end)
       THEN normalized
       ELSE <<>>

RECURSIVE RawEvents(_, _, _, _, _)
RawEvents(raw_events, i, expand_recurring, window_start, window_end) ==
    IF i > Len(raw_events) THEN <<>>
    ELSE RawEventEvents(raw_events[i], expand_recurring, window_start, window_end)
         \o RawEvents(raw_events, i + 1, expand_recurring, window_start, window_end)

-----------------------------------------------------------------------------
(* ImporterService._parse_ics                                              *)

\* The calendar text is [parse_ok, calname, components]: parse_ok is FALSE
\* when Calendar.from_ical raises; components are its VEVENTs in file order.
\* A component is [summary, description, attendees, dtstart, dtend, rrule];
\* dtstart and dtend are <<>> when the property is absent, else <<v>> with
\* v = [kind, wall, off]:
\*   "date"    a DATE value, wall = 00:00 of that day
\*   "naive"   a floating DATE-TIME
\*   "aware"   a DATE-TIME with a timezone
\*   "broken"  no single date value (the property is written twice in the
\*             VEVENT, so component.get returns a list): reading .dt raises

\* _normalize_datetime, lines 346-358
NormalizeDatetime(v) ==
    IF v.kind = "aware" THEN Dt(v.wall - v.off, v.off)
    ELSE IF v.kind = "naive" THEN Dt(v.wall, 0)
    ELSE Dt((v.wall \div MinPerDay) * MinPerDay, 0)

\* datetime.combine(v.dt, datetime.min.time(), tzinfo=tz), lines 177 and 179:
\* midnight, in the request timezone, of the date written in v
CombineMidnight(v) == Dt((v.wall \div MinPerDay) * MinPerDay, 0)

\* line 172
IsAllDay(component) == component.dtstart[1].kind = "date"

\* lines 174-191
ComponentStart(component) ==
    IF IsAllDay(component) THEN CombineMidnight(component.dtstart[1])
    ELSE NormalizeDatetime(component.dtstart[1])

ComponentEnd(component) ==
    IF IsAllDay(component)
    THEN IF component.dtend # <<>>
         THEN CombineMidnight(component.dtend[1])
         ELSE Plus(ComponentStart(component), MinPerDay)
    ELSE IF component.dtend # <<>>
         THEN NormalizeDatetime(component.dtend[1])
         ELSE Plus(ComponentStart(component), MinPerHour)

\* reading .dt of DTSTART (line 172) or of DTEND (lines 178, 188) raises
ComponentRaises(component) ==
    \/ component.dtstart[1].kind = "broken"
    \/ component.dtend # <<>> /\ component.dtend[1].kind = "broken"

\* lines 193-228: what one readable component adds to the list
ComponentEvents(component, calendar_name, expand_recurring, window_start, window_end) ==
    LET start_dt == ComponentStart(component)
        end_dt == ComponentEnd(component)
        expanding == component.rrule # <<>> /\ expand_recurring
    IN IF ~expanding /\ ~Intersects(start_dt, end_dt, window_start, window_end)
       THEN <<>>
       ELSE IF expanding
       THEN ExpandRrule(component.rrule[1], start_dt, end_dt, window_start, window_end,
                        component.summary, component.description, calendar_name,
                        component.attendees, IsAllDay(component))
       ELSE IF StartInWindow(start_dt, window_start, window_end)
       THEN <<MakeEvent(calendar_name, start_dt, end_dt, component.summary,
                        component.description, component.attendees, FALSE,
                        IsAllDay(component))>>
       ELSE <<>>

\* lines 152-231: the loop over the components; an exception ends the loop
\* and the events collected so far are returned
RECURSIVE WalkComponents(_, _, _, _, _, _)
WalkComponents(components, i, calendar_name, expand_recurring, window_start, window_end) ==
    IF i > Len(components) THEN <<>>
    ELSE IF components[i].dtstart = <<>>
    THEN WalkComponents(components, i + 1, calendar_name, expand_recurring,
                        window_start, window_end)
    ELSE IF ComponentRaises(components[i]) THEN <<>>
    ELSE ComponentEvents(components[i], calendar_name, expand_recurring,
                         window_start, window_end)
         \o WalkComponents(components, i + 1, calendar_name, expand_recurring,
                           window_start, window_end)

\* lines 145-233
ParseIcs(ics_content, expand_recurring, window_start, window_end) ==
    IF ~ics_content.parse_ok THEN <<>>
    ELSE WalkComponents(ics_content.components, 1, ics_content.calname,
                        expand_recurring, window_start, window_end)

-----------------------------------------------------------------------------
(* ImporterService._deduplicate_events                                     *)

\* datetime.isoformat(): the wall clock and the UTC offset, as tokens
IsoFormat(dt) == <<ToString(dt.t + dt.off), ToString(dt.off)>>

\* _get_event_hash, lines 380-385.  A text is a sequence of tokens and the
\* key is the join of the four fields with "|"; md5 is taken as injective
\* on keys.
EventHash(event) ==
    event.calendar \o <<"|">> \o IsoFormat(event.start) \o <<"|">>
        \o IsoFormat(event.end) \o <<"|">> \o event.summary

RECURSIVE DedupKeepLastFrom(_, _)
DedupKeepLastFrom(events, i) ==
    IF i > Len(events) THEN <<>>
    ELSE (IF \E j \in (i + 1)..Len(events) : EventHash(events[j]) = EventHash(events[i])
          THEN <<>> ELSE <<events[i]>>)
         \o DedupKeepLastFrom(events, i + 1)

\* a deduplication that keeps the last event of each hash
DedupKeepLast(events) == DedupKeepLastFrom(events, 1)

RECURSIVE DedupFrom(_, _, _)
DedupFrom(events, i, seen) ==
    IF i > Len(events) THEN <<>>
    ELSE IF EventHash(events[i]) \in seen
    THEN DedupFrom(events, i + 1, seen)
    ELSE <<events[i]>> \o DedupFrom(events, i + 1, seen \cup {EventHash(events[i])})

\* lines 365-378
DeduplicateEvents(events) == DedupFrom(events, 1, {})

-----------------------------------------------------------------------------
(* ImporterService.import_events._compute_import                           *)

\* list.sort(key=lambda e: e.start), line 94: stable, by instant
RECURSIVE InsertEventByStart(_, _)
InsertEventByStart(sorted, x) ==
    IF sorted = <<>> THEN <<x>>
    ELSE IF x.start.t < Head(sorted).start.t THEN <<x>> \o sorted
    ELSE <<Head(sorted)>> \o InsertEventByStart(Tail(sorted), x)

RECURSIVE SortEventsByStart(_)
SortEventsByStart(seq) ==
    IF seq = <<>> THEN <<>>
    ELSE InsertEventByStart(SortEventsByStart(SubSeq(seq, 1, Len(seq) - 1)), seq[Len(seq)])

\* lines 40-85: the events of the calendar text, then those of the raw list
CollectEvents(req, window_start, window_end) ==
    (IF req.ics_content # <<>>
     THEN ParseIcs(req.ics_content[1], req.expand_recurring, window_start, window_end)
     ELSE <<>>)
    \o RawEvents(req.events, 1, req.expand_recurring, window_start, window_end)

\* line 88
FilterByWindow(events, window_start, window_end) ==
    SelectSeq(events, LAMBDA e : StartInWindow(e.start, window_start, window_end))

\* lines 97-102
ImportStats(events) ==
    [total_imported |-> Len(events),
     recurring_expanded |-> Cardinality({i \in 1..Len(events) : events[i].from_recurring}),
     all_day_events |-> Cardinality({i \in 1..Len(events) : events[i].all_day}),
     unique_calendars |-> Cardinality({events[i].calendar : i \in 1..Len(events)})]

\* event.model_dump(), line 107: the fields of Event, without the private marks
DumpEvent(event) ==
    [calendar |-> event.calendar, start |-> event.start, end |-> event.end,
     summary |-> event.summary, description |-> event.description,
     attendees |-> event.attendees]

\* lines 38-112, at the instant clk; filtered and unique are the values of
\* the local `events` after lines 88 and 91
ComputeImport(req, clk) ==
    LET window == ImportWindow(req, clk)
        filtered == FilterByWindow(CollectEvents(req, window.start, window.end),
                                   window.start, window.end)
        unique == DeduplicateEvents(filtered)
        events == SortEventsByStart(unique)
    IN [filtered |-> filtered,
        unique |-> unique,
        response_data |-> [tz |-> req.timezone,
                           generated_at |-> clk,
                           events |-> [i \in 1..Len(events) |-> DumpEvent(events[i])],
                           stats |-> ImportStats(events)]]

-----------------------------------------------------------------------------
(* CacheService and JSONStorage, for the import stage                      *)

MaxAgeHours == 24    \* importer.py line 119
ExpiresHours == 48   \* importer.py line 120

\* lines 29-36 of importer.py: what the cache key is made of
CacheInput(req) ==
    [ics_content |-> req.ics_content, events |-> req.events, timezone |-> req.timezone,
     expand_recurring |-> req.expand_recurring, horizon_days |-> req.horizon_days,
     days_limit |-> req.days_limit]

\* create_hash: sha256 of the sorted JSON text, taken as injective on inputs
CreateHash(input_data) == input_data

\* JSONStorage.get_cache_entry: the entry returned (<<>> is None) and the
\* cache file afterwards; an entry past its expires_at is deleted
GetCacheEntry(cache_data, input_hash, clk) ==
    LET stored == {e \in cache_data : e.input_hash = input_hash}
    IN IF stored = {} THEN [entry |-> <<>>, cache_data |-> cache_data]
       ELSE LET entry == CHOOSE e \in stored : TRUE
            IN IF clk > entry.expires_at
               THEN [entry |-> <<>>, cache_data |-> cache_data \ stored]
               ELSE [entry |-> <<entry>>, cache_data |-> cache_data]

\* CacheService.get_cached_result: <<>> is None
GetCachedResult(cache_data, input_data, max_age_hours, clk) ==
    LET got == GetCacheEntry(cache_data, CreateHash(input_data), clk)
    IN IF got.entry = <<>> THEN [result |-> <<>>, cache_data |-> got.cache_data]
       ELSE IF got.entry[1].created_at < clk - max_age_hours * MinPerHour
       THEN [result |-> <<>>, cache_data |-> got.cache_data]
       ELSE [result |-> <<got.entry[1].result_data>>, cache_data |-> got.cache_data]

\* CacheService.cache_result and JSONStorage.save_cache_entry
CacheResult(cache_data, input_data, result_data, expires_hours, clk) ==
    {e \in cache_data : e.input_hash # CreateHash(input_data)}
    \cup {[input_hash |-> CreateHash(input_data),
           result_data |-> result_data,
           created_at |-> clk,
           expires_at |-> clk + expires_hours * MinPerHour]}

\* CacheService.get_or_cache around _compute_import, and the direct call of
\* line 123; `computed` is the value _compute_import returns when it runs
ImportResult(req, use_cache, cache_data, clk) ==
    LET computed == ComputeImport(req, clk)
        Computed(cache_after) ==
            [from_cache |-> FALSE, filtered |-> computed.filtered,
             unique |-> computed.unique, result_data |-> computed.response_data,
             cache_data |-> cache_after]
    IN IF ~use_cache THEN Computed(cache_data)
       ELSE LET cached == GetCachedResult(cache_data, CacheInput(req), MaxAgeHours, clk)
            IN IF cached.result # <<>>
               THEN [from_cache |-> TRUE, filtered |-> <<>>, unique |-> <<>>,
                     result_data |-> cached.result[1], cache_data |-> cached.cache_data]
               ELSE Computed(CacheResult(cached.cache_data, CacheInput(req),
                                         computed.response_data, ExpiresHours, clk))

-----------------------------------------------------------------------------
(* Inputs of an import request                                             *)

\* Week 0 starts at instant 0 (a Monday, 00:00 in the request timezone).
Naive(wall) == [kind |-> "naive", wall |-> wall, off |-> 0]
Aware(wall, off) == [kind |-> "aware", wall |-> wall, off |-> off]
DateValue(day) == [kind |-> "date", wall |-> day * MinPerDay, off |-> 0]
Garbage == [kind |-> "garbage", wall |-> 0, off |-> 0]
Broken == [kind |-> "broken", wall |-> 0, off |-> 0]

Rule(ok, period, interval, count) ==
    [ok |-> ok, period |-> period, interval |-> interval, count |-> count]
DailyThrice == Rule(TRUE, MinPerDay, 1, 3)
Weekly == Rule(TRUE, 7 * MinPerDay, 1, 0)
Unreadable == Rule(FALSE, MinPerDay, 1, 0)

RawEv(calendar, start, end, summary, description, rrule) ==
    [calendar |-> calendar, start |-> start, end |-> end, summary |-> summary,
     description |-> description, attendees |-> <<"ann">>, rrule |-> rrule,
     all_day |-> FALSE]

\* The raw events a request draws from:
\*   1  Tuesday of week 0, 00:00-01:00 (one day after the week's start)
\*   2  the Sunday before week 0, 00:00-01:00 (one day before the week's start)
\*   3  the calendar, start, end and summary of 1, another description
\*   4  the instant of 1 written with another UTC offset
\*   5  Sunday of week 0, 20:00-21:00
\*   6  Monday of week 1, 00:00-01:00 (the start of the next week)
\*   7  daily, three times, from Saturday of week 0 10:00, one hour long
\*   8  weekly without end, from Monday of week 0 00:00, half an hour long
\*   9  an unreadable rule; the master runs from 23:30 of the Sunday before
\*      week 0 to 00:30 of Monday
\*  10  a start text that cannot be parsed
\*  11  an end equal to the start
RawPool ==
    <<RawEv(<<"cal">>, Naive(1440), Naive(1500), <<"inside">>, "first", <<>>),
      RawEv(<<"cal">>, Naive(-1440), Naive(-1380), <<"before">>, "", <<>>),
      RawEv(<<"cal">>, Naive(1440), Naive(1500), <<"inside">>, "second", <<>>),
      RawEv(<<"cal">>, Aware(1260, -180), Aware(1320, -180), <<"inside">>, "utc", <<>>),
      RawEv(<<"home">>, Naive(9840), Naive(9900), <<"dinner">>, "", <<>>),
      RawEv(<<"cal">>, Naive(10080), Naive(10140), <<"monday">>, "", <<>>),
      RawEv(<<"cal">>, Naive(7800), Naive(7860), <<"run">>, "daily", <<DailyThrice>>),
      RawEv(<<"cal">>, Naive(0), Naive(30), <<"sync">>, "weekly", <<Weekly>>),
      RawEv(<<"cal">>, Naive(-30), Naive(30), <<"night">>, "", <<Unreadable>>),
      RawEv(<<"cal">>, Garbage, Naive(3000), <<"typo">>, "", <<>>),
      RawEv(<<"cal">>, Naive(3000), Naive(3000), <<"instant">>, "", <<>>)>>

RECURSIVE PoolRaws(_, _)
PoolRaws(I, i) ==
    IF i > Len(RawPool) THEN <<>>
    ELSE (IF i \in I THEN <<RawPool[i]>> ELSE <<>>) \o PoolRaws(I, i + 1)

RawLists(n) ==
    {PoolRaws(I, 1) : I \in {J \in SUBSET (1..Len(RawPool)) : Cardinality(J) <= n}}

Component(summary, dtstart, dtend, rrule) ==
    [summary |-> summary, description |-> "", attendees |-> <<>>,
     dtstart |-> dtstart, dtend |-> dtend, rrule |-> rrule]

\* The calendar texts a request draws from:
\*   1  calendar "cal": the event of raw event 1; an all-day event on
\*      Wednesday of week 0; a daily rule, three times, from Sunday of week 0
\*      09:00; a component without DTSTART
\*   2  an event, a component with two DTSTART lines, another event
\*   3  a text Calendar.from_ical rejects
\*   4  calendar "team": an event on Tuesday of week 0 whose DTEND (09:00)
\*      is before its DTSTART (10:00); an all-day event on Thursday of week 0
\*      whose DTEND is the same day; an event on Monday of week 1, 00:00-01:00
IcsPool ==
    <<[parse_ok |-> TRUE, calname |-> <<"cal">>,
       components |->
         <<Component(<<"inside">>, <<Naive(1440)>>, <<Naive(1500)>>, <<>>),
           Component(<<"holiday">>, <<DateValue(2)>>, <<>>, <<>>),
           Component(<<"swim">>, <<Aware(9000, -180)>>, <<Aware(9060, -180)>>,
                     <<DailyThrice>>),
           Component(<<"draft">>, <<>>, <<>>, <<>>)>>],
      [parse_ok |-> TRUE, calname |-> <<"Calendar">>,
       components |->
         <<Component(<<"early">>, <<Naive(600)>>, <<>>, <<>>),
           Component(<<"bad">>, <<Broken>>, <<>>, <<>>),
           Component(<<"late">>, <<Naive(4000)>>, <<Naive(4100)>>, <<>>)>>],
      [parse_ok |-> FALSE, calname |-> <<>>, components |-> <<>>],
      [parse_ok |-> TRUE, calname |-> <<"team">>,
       components |->
         <<Component(<<"backwards">>, <<Naive(2040)>>, <<Naive(1980)>>, <<>>),
           Component(<<"fair">>, <<DateValue(3)>>, <<DateValue(3)>>, <<>>),
           Component(<<"kickoff">>, <<Naive(10080)>>, <<Naive(10140)>>, <<>>)>>]>>

IcsSet == {<<>>} \cup {<<IcsPool[i]>> : i \in 1..Len(IcsPool)}

DaysLimitSet == {<<>>, <<0>>, <<1>>}

ImportRequestSet ==
    {[ics_content |-> c.ics, events |-> c.evs, timezone |-> "Europe/Moscow",
      expand_recurring |-> ex, horizon_days |-> 30, days_limit |-> d] :
        c \in {[ics |-> ics, evs |-> evs] :
                   ics \in IcsSet, evs \in RawLists(MaxItems)} \ {[ics |-> ics, evs |-> evs] :
                   ics \in IcsSet \ {<<>>}, evs \in RawLists(MaxItems) \ RawLists(MaxItems - 1)},
        ex \in BOOLEAN, d \in DaysLimitSet}

\* Sunday of week 0 23:00, Monday of week 1 01:00, Monday of week 1 23:30,
\* Wednesday of week 1 02:00
ClockSet == {10020, 10140, 11490, 13080}
\* the instants at which the client may send the request for the first time
FirstClockSet == {10020, 10140}

-----------------------------------------------------------------------------
(* The import handler as a state machine                                   *)

\* A client holds one import request and sends it again and again; the
\* cache file starts empty.
InitImport ==
    /\ KeysIdle
    /\ TasksIdle
    /\ AnalyzerIdle
    /\ RecommenderIdle
    /\ PreferenceIdle
    /\ ExpandIdle
    /\ EnricherIdle
    /\ CacheIdle
    /\ clock \in FirstClockSet
    /\ import_request \in ImportRequestSet
    /\ import_cache = {}
    /\ import_call = <<>>
    /\ import_response = <<>>
    /\ imports = 0

\* time passes
Tick ==
    /\ \E later \in ClockSet : later > clock /\ clock' = later
    /\ UNCHANGED <<import_request, import_cache, import_call, import_response, imports>>
    /\ UNCHANGED <<recVars, prefVars, expVars, enrVars, cacheVars, anaVars, taskVars, keyVars>>

\* import_events(request, use_cache), lines 26-133, at the instant clock
ImportEvents ==
    /\ imports < MaxImports
    /\ \E use_cache \in BOOLEAN :
          LET result == ImportResult(import_request, use_cache, import_cache, clock)
          IN /\ import_cache' = result.cache_data
             /\ import_call' = [use_cache |-> use_cache, at |-> clock,
                                from_cache |-> result.from_cache,
                                filtered |-> result.filtered,
                                unique |-> result.unique]
             /\ import_response' = result.result_data
    /\ imports' = imports + 1
    /\ UNCHANGED <<clock, import_request>>
    /\ UNCHANGED <<recVars, prefVars, expVars, enrVars, cacheVars, anaVars, taskVars, keyVars>>

NextImport == Tick \/ ImportEvents

SpecImport == InitImport /\ [][NextImport]_vars

-----------------------------------------------------------------------------
(* _score_slot's time-preference component on two candidate slots          *)

\* habit windows of the category "work": 09:00-12:00, 14:30-15:00, and
\* 23:00-00:30, which _calculate_time_window (analyzer.py) derives from the
\* medians of one event that runs over midnight
PreferenceWindows ==
    {[event_type |-> "work", sh |-> 9, sm |-> 0, eh |-> 12, em |-> 0],
     [event_type |-> "work", sh |-> 14, sm |-> 30, eh |-> 15, em |-> 0],
     [event_type |-> "work", sh |-> 23, sm |-> 0, eh |-> 0, em |-> 30]}

\* slot starts, in minutes after midnight, evenly spread over the day
SlotStarts == {k * (MinPerDay \div SlotsPerDay) : k \in 0..(SlotsPerDay - 1)}

PreferenceQuery ==
    [duration_min |-> 60, event_type |-> "work", priority_type |-> "regular",
     preferred_time |-> "none"]

InitPreference ==
    /\ KeysIdle
    /\ TasksIdle
    /\ AnalyzerIdle
    /\ RecommenderIdle
    /\ ImporterIdle
    /\ ExpandIdle
    /\ EnricherIdle
    /\ CacheIdle
    /\ pref \in {[window |-> w, h1 |-> a, h2 |-> b, scored |-> FALSE, tp1 |-> 0, tp2 |-> 0] :
                    w \in PreferenceWindows, a \in SlotStarts, b \in SlotStarts}

\* lines 189-236 of recommender.py applied to the two slots, all else equal
ScorePreference ==
    /\ ~pref.scored
    /\ LET habits == [present |-> TRUE, default_windows |-> {pref.window}]
           Slot(h) == [start |-> h, end |-> h + PreferenceQuery.duration_min, off |-> 0]
       IN pref' = [pref EXCEPT !.scored = TRUE,
                               !.tp1 = TimePreference(Slot(pref.h1), PreferenceQuery, habits),
                               !.tp2 = TimePreference(Slot(pref.h2), PreferenceQuery, habits)]
    /\ UNCHANGED <<recVars, impVars, expVars, enrVars, cacheVars, anaVars, taskVars, keyVars>>

NextPreference == ScorePreference

SpecPreference == InitPreference /\ [][NextPreference]_vars

-----------------------------------------------------------------------------
(* _expand_rrule on its own                                                *)

ExpandRules == {DailyThrice, Weekly, Unreadable, Rule(TRUE, MinPerDay, 2, 0)}

\* master starts: Monday of week 0 00:00; Saturday of week 0 10:00; Sunday
\* of week 0 09:00 written with another UTC offset; 23:30 of the Sunday
\* before week 0
ExpandStarts == {Dt(0, 0), Dt(7800, 0), Dt(9180, -180), Dt(-30, 0)}

\* master durations in minutes
ExpandDurations == {30, 60, MinPerDay}

\* week 0; week 1; week 0 widened by a day on each side; no limit
ExpandWindows ==
    {[start |-> 0, end |-> 7 * MinPerDay],
     [start |-> 7 * MinPerDay, end |-> 14 * MinPerDay],
     [start |-> -MinPerDay, end |-> 8 * MinPerDay],
     [start |-> DatetimeMin, end |-> DatetimeMax]}

InitExpand ==
    /\ KeysIdle
    /\ TasksIdle
    /\ AnalyzerIdle
    /\ RecommenderIdle
    /\ PreferenceIdle
    /\ ImporterIdle
    /\ EnricherIdle
    /\ CacheIdle
    /\ expand \in {[rrule_data |-> r, start_dt |-> s, end_dt |-> Plus(s, d),
                    window |-> w, is_all_day |-> a, summary |-> <<"run">>,
                    description |-> "daily", calendar |-> <<"cal">>,
                    attendees |-> <<"ann", "bob">>, done |-> FALSE, events |-> <<>>] :
                      r \in ExpandRules, s \in ExpandStarts, d \in ExpandDurations,
                      w \in ExpandWindows, a \in BOOLEAN}

\* _expand_rrule(...), lines 235-291
Expand ==
    /\ ~expand.done
    /\ expand' = [expand EXCEPT
                    !.done = TRUE,
                    !.events = ExpandRrule(expand.rrule_data, expand.start_dt,
                                           expand.end_dt, expand.window.start,
                                           expand.window.end, expand.summary,
                                           expand.description, expand.calendar,
                                           expand.attendees, expand.is_all_day)]
    /\ UNCHANGED <<recVars, prefVars, impVars, enrVars, cacheVars, anaVars, taskVars, keyVars>>

NextExpand == Expand

SpecExpand == InitExpand /\ [][NextExpand]_vars

-----------------------------------------------------------------------------
(* EnricherService (app/services/enricher.py)                              *)

MaxBatch == 2         \* events per enrich request
MaxEnrichments == 2   \* enrich_events calls in one behaviour

\* A confidence is a multiple of 1/288 (ConfOne is 1.0), which holds every
\* quotient score / (keywords + 3) that _classify_with_rules forms.
ConfOne == 288

\* EventType, in the order of the enum
EventTypes ==
    <<"work", "study", "health", "household", "family", "creative", "travel",
      "leisure", "routine", "other">>

EventTypeSet == {EventTypes[i] : i \in 1..Len(EventTypes)}

\* settings.use_llm, config.py line 28
SettingsUseLlm == TRUE

\* The text of an event (summary and description, lowered) is given by the
\* set of the words below that occur in it; EVENT_KEYWORDS and
\* PRIORITY_KEYWORDS are cut down to these words.
EventKeywords(event_type) ==
    CASE event_type = "work" -> {"meeting"}
      [] event_type = "health" -> {"gym"}
      [] event_type = "family" -> {"dinner"}
      [] event_type = "routine" -> {"morning routine"}
      [] OTHER -> {}

\* len(self.event_keywords[event_type_str]), config.py lines 80-126
KeywordCount(event_type) == IF event_type = "routine" THEN 13 ELSE 15

PriorityKeywords == {"urgent", "deadline"}

\* _classify_with_rules, lines 117-182; scores are counted in halves
RuleScoreAt(event, event_type, hour, weekday, matched) ==
    LET by_hour ==
            IF 6 <= hour /\ hour < 9
            THEN (IF event_type \in {"health", "routine"} THEN 2 ELSE 0)
            ELSE IF 9 <= hour /\ hour < 18 /\ weekday < 5
            THEN (IF event_type = "work" THEN 2 ELSE 0)
            ELSE IF 18 <= hour /\ hour < 22
            THEN (IF event_type \in {"study", "family", "leisure"} THEN 1 ELSE 0)
            ELSE 0
        by_attendees ==
            IF Len(event.attendees) > 2 /\ event_type = "work" THEN 2 ELSE 0
    IN IF matched = 0 THEN 0 ELSE matched + by_hour + by_attendees

\* lines 121-167: the score of one event type, in halves
RuleScore(event, event_type) ==
    RuleScoreAt(event, event_type,
                HourOf(event.start.t, event.start.off),
                WeekdayOf(event.start.t, event.start.off),
                2 * Cardinality(EventKeywords(event_type) \cap event.text))

\* lines 121-169: the scores dict, by the place of the type in EventTypes
\* (every type but "other"); a score of 0 is not stored
RuleScores(event) ==
    [i \in 1..(Len(EventTypes) - 1) |-> RuleScore(event, EventTypes[i])]

\* line 176: max(scores.items(), key=...), the first of the largest
BestScored(scores) ==
    CHOOSE i \in DOMAIN scores :
        /\ scores[i] > 0
        /\ \A j \in DOMAIN scores :
              scores[j] < scores[i] \/ (scores[j] = scores[i] /\ i <= j)

\* lines 178-180: confidence = min(score / max_possible_score, 1.0)
RuleConfidence(score, event_type) ==
    Min2((score * ConfOne) \div (2 * (KeywordCount(event_type) + 3)), ConfOne)

\* lines 171-182
RuleChoice(scores) ==
    IF \A i \in DOMAIN scores : scores[i] = 0
    THEN [event_type |-> <<"other">>, confidence |-> 0]
    ELSE [event_type |-> <<EventTypes[BestScored(scores)]>>,
          confidence |-> RuleConfidence(scores[BestScored(scores)],
                                        EventTypes[BestScored(scores)])]

ClassifyWithRules(event) == RuleChoice(RuleScores(event))

\* What the exchange with the classifier service brings, lines 208-229:
\* kind "network_error" and "timeout" are exceptions of requests.post,
\* "http_error" a status other than 200, "malformed_json" a response text
\* json.loads rejects, "not_an_object" a JSON text that is a list, and
\* "answer" a JSON object whose "type" is `type` and whose "confidence" is
\* absent (conf_kind "missing"), the number conf / ConfOne ("number") or a
\* text that is not a number ("text").
Outcome(kind, type, conf_kind, conf) ==
    [kind |-> kind, type |-> type, conf_kind |-> conf_kind, conf |-> conf]

\* _classify_with_llm, lines 184-240; event_type <<>> is None
ClassifyWithLlm(outcome) ==
    LET failed == [event_type |-> <<>>, confidence |-> 0]
    IN IF ~SettingsUseLlm THEN failed
       ELSE IF outcome.kind # "answer" THEN failed
       ELSE IF outcome.conf_kind = "text" THEN failed
       ELSE IF outcome.type \in EventTypeSet
       THEN [event_type |-> <<outcome.type>>,
             confidence |-> IF outcome.conf_kind = "missing" THEN ConfOne \div 2
                            ELSE outcome.conf]
       ELSE failed

\* _determine_priority, lines 242-265
DeterminePriority(event) ==
    LET hour == HourOf(event.start.t, event.start.off)
    IN IF PriorityKeywords \cap event.text # {} THEN "high"
       ELSE IF Len(event.attendees) > 5 THEN "high"
       ELSE IF (hour < 8 \/ hour > 20) /\ "routine" \notin event.text THEN "high"
       ELSE "regular"

\* _extract_tags, lines 307-328, as a set (the list comes from a set)
ExtractTags(event) ==
    (IF Len(event.attendees) > 0 THEN {"meeting"} ELSE {})
        \cup (IF "deadline" \in event.text THEN {"deadline"} ELSE {})

\* EnrichAttributes, schemas.py lines 103-111: the model is built only when
\* category_confidence passes Field(ge=0.0, le=1.0)
ValidAttributes(confidence) == 0 <= confidence /\ confidence <= ConfOne

\* _calculate_attributes, lines 267-305
CalculateAttributes(event, confidence) ==
    LET day_of_week == WeekdayOf(event.start.t, event.start.off) + 1
        hour_of_day == HourOf(event.start.t, event.start.off)
    IN [duration_min |-> event.end.t - event.start.t,
        day_of_week |-> day_of_week,
        hour_of_day |-> hour_of_day,
        is_working_hours |-> (9 <= hour_of_day /\ hour_of_day < 18 /\ day_of_week <= 5),
        is_weekend |-> day_of_week > 5,
        tags |-> ExtractTags(event),
        category_confidence |-> confidence]

\* lines 51-63: the category and the confidence of one event, and which
\* counter of the statistics it moves
Classified(llm, got) ==
    [event_type |-> IF got.event_type = <<>> THEN "other" ELSE got.event_type[1],
     confidence |-> IF got.event_type = <<>> THEN 0 ELSE got.confidence,
     by_llm |-> llm /\ got.event_type # <<>>,
     by_rules |-> ~llm /\ got.event_type # <<"other">>,
     failure |-> got.event_type = <<>>]

Classify(event, use_llm, outcome) ==
    Classified(use_llm /\ SettingsUseLlm,
               IF use_llm /\ SettingsUseLlm THEN ClassifyWithLlm(outcome)
               ELSE ClassifyWithRules(event))

\* lines 66-81: the EnrichedEvent of one event
EnrichedEvent(event, classified) ==
    [calendar |-> event.calendar, start |-> event.start, end |-> event.end,
     summary |-> event.summary, text |-> event.text, attendees |-> event.attendees,
     event_type |-> classified.event_type,
     priority_type |-> DeterminePriority(event),
     enrich_attrs |-> CalculateAttributes(event, classified.confidence)]

\* the loop of lines 50-86 from event i on: the index of the first event
\* whose EnrichAttributes is refused (0 when there is none)
RECURSIVE FirstRefused(_, _, _, _)
FirstRefused(events, use_llm, outcomes, i) ==
    IF i > Len(events) THEN 0
    ELSE IF ~ValidAttributes(Classify(events[i], use_llm, outcomes[i]).confidence) THEN i
    ELSE FirstRefused(events, use_llm, outcomes, i + 1)

\* lines 40-46 and 54, 58, 63, 86
StatsOf(classified) ==
    [total_events |-> Len(classified),
     classified_by_rules |-> Cardinality({i \in DOMAIN classified : classified[i].by_rules}),
     classified_by_llm |-> Cardinality({i \in DOMAIN classified : classified[i].by_llm}),
     classification_failures |-> Cardinality({i \in DOMAIN classified : classified[i].failure}),
     event_types |-> [t \in EventTypeSet |->
                         Cardinality({i \in DOMAIN classified : classified[i].event_type = t})]]

EnrichStats(events, use_llm, outcomes) ==
    StatsOf([i \in 1..Len(events) |-> Classify(events[i], use_llm, outcomes[i])])

\* _compute_enrich, lines 37-95; outcomes[i] is what the classifier service
\* does when it is asked about events[i].  raised: a ValidationError of
\* EnrichAttributes left the function.
ComputeEnrich(req, outcomes) ==
    IF FirstRefused(req.events, req.use_llm, outcomes, 1) # 0
    THEN [raised |-> TRUE, response_data |-> <<>>]
    ELSE [raised |-> FALSE,
          response_data |->
              [tz |-> req.tz,
               events |-> [i \in 1..Len(req.events) |->
                              EnrichedEvent(req.events[i],
                                            Classify(req.events[i], req.use_llm, outcomes[i]))],
               enrichment_stats |-> EnrichStats(req.events, req.use_llm, outcomes)]]

EnrichMaxAgeHours == 24    \* enricher.py line 102
EnrichExpiresHours == 72   \* enricher.py line 103

\* lines 31-35: what the cache key is made of
EnrichCacheInput(req) == [tz |-> req.tz, events |-> req.events, use_llm |-> req.use_llm]

\* what enrich_events hands back when _compute_enrich ran, and the cache
\* file it leaves
Computed(computed, cache_after) ==
    [from_cache |-> FALSE, raised |-> computed.raised,
     result_data |-> computed.response_data, cache_data |-> cache_after]

\* CacheService.get_or_cache, cache.py lines 96-128, after its lookup
\* brought `cached`; nothing is stored when _compute_enrich raised
GetOrCache(req, computed, clk, cached) ==
    IF cached.result # <<>>
    THEN [from_cache |-> TRUE, raised |-> FALSE,
          result_data |-> cached.result[1], cache_data |-> cached.cache_data]
    ELSE IF computed.raised THEN Computed(computed, cached.cache_data)
    ELSE Computed(computed,
                  CacheResult(cached.cache_data, EnrichCacheInput(req),
                              computed.response_data, EnrichExpiresHours, clk))

\* lines 97-115: get_or_cache around _compute_enrich, or the direct call
EnrichResult(req, use_cache, outcomes, cache_data, clk) ==
    IF ~use_cache THEN Computed(ComputeEnrich(req, outcomes), cache_data)
    ELSE GetOrCache(req, ComputeEnrich(req, outcomes), clk,
                    GetCachedResult(cache_data, EnrichCacheInput(req),
                                    EnrichMaxAgeHours, clk))

-----------------------------------------------------------------------------
(* Inputs of the enrich stage                                              *)

EnrichEvent(summary, text, start, minutes, attendees) ==
    [calendar |-> <<"cal">>, start |-> Dt(start, 0), end |-> Dt(start + minutes, 0),
     summary |-> <<summary>>, text |-> text, attendees |-> attendees]

\* Tuesday 10:00 with three attendees; Saturday 20:30; Monday 06:30, a
\* routine; Thursday 14:00 with six attendees; Friday 15:00, urgent
EnrichPool ==
    {EnrichEvent("standup", {"meeting"}, 2040, 30, <<"ann", "bob", "eve">>),
     EnrichEvent("birthday", {"dinner"}, 8430, 90, <<"ann">>),
     EnrichEvent("wake up", {"morning routine", "routine"}, 390, 20, <<>>),
     EnrichEvent("board", {}, 5160, 60, <<"ann", "bob", "eve", "dan", "kim", "lea">>),
     EnrichEvent("fix", {"urgent"}, 6660, 45, <<>>)}

RECURSIVE EnrichBatches(_)
EnrichBatches(n) ==
    IF n = 0 THEN {<<>>}
    ELSE {<<>>} \cup {Append(b, e) : b \in EnrichBatches(n - 1), e \in EnrichPool}

EnrichRequestSet ==
    {[tz |-> "Europe/Moscow", events |-> b, use_llm |-> u] :
        b \in EnrichBatches(MaxBatch) \ {<<>>}, u \in BOOLEAN}

\* what the classifier service may do with one event
OutcomeSet ==
    {Outcome("network_error", "", "missing", 0),
     Outcome("timeout", "", "missing", 0),
     Outcome("http_error", "", "missing", 0),
     Outcome("malformed_json", "", "missing", 0),
     Outcome("not_an_object", "", "missing", 0),
     Outcome("answer", "work", "number", 216),
     Outcome("answer", "work", "missing", 0),
     Outcome("answer", "work", "text", 0),
     Outcome("answer", "work", "number", 432),
     Outcome("answer", "family", "number", -72),
     Outcome("answer", "meeting", "number", 216),
     Outcome("answer", "other", "number", 288)}

\* the classifier service is not asked when the rules classify
NotAsked == Outcome("not_asked", "", "missing", 0)

RECURSIVE OutcomeLists(_)
OutcomeLists(n) ==
    IF n = 0 THEN {<<>>} ELSE {Append(l, o) : l \in OutcomeLists(n - 1), o \in OutcomeSet}

OutcomesFor(req) ==
    IF req.use_llm /\ SettingsUseLlm THEN OutcomeLists(Len(req.events))
    ELSE {[i \in 1..Len(req.events) |-> NotAsked]}

\* the request time, and 25 and 73 hours later
EnrichClockSet == {0, 25 * MinPerHour, 73 * MinPerHour}

-----------------------------------------------------------------------------
(* The enrich handler as a state machine                                   *)

\* A client holds one enrich request and sends it again; the classifier
\* service treats each event of the request in its own way, the same at
\* every call; the cache file starts empty.
InitEnrich ==
    /\ KeysIdle
    /\ TasksIdle
    /\ AnalyzerIdle
    /\ RecommenderIdle
    /\ PreferenceIdle
    /\ ImporterIdle
    /\ ExpandIdle
    /\ CacheIdle
    /\ enrich_clock = 0
    /\ enrich_request \in EnrichRequestSet
    /\ classifier \in OutcomesFor(enrich_request)
    /\ enrich_cache = {}
    /\ enrich_call = <<>>
    /\ enrich_response = <<>>
    /\ enrichments = 0

\* time passes
EnrichTick ==
    /\ \E later \in EnrichClockSet : later > enrich_clock /\ enrich_clock' = later
    /\ UNCHANGED <<enrich_request, classifier, enrich_cache, enrich_call, enrich_response, enrichments>>
    /\ UNCHANGED <<recVars, prefVars, impVars, expVars, cacheVars, anaVars, taskVars, keyVars>>

\* lines 113-115: the response of one call, and the cache file it leaves
Answer(use_cache, result) ==
    /\ enrich_cache' = result.cache_data
    /\ enrich_call' = [use_cache |-> use_cache, at |-> enrich_clock,
                       from_cache |-> result.from_cache,
                       raised |-> result.raised]
    /\ enrich_response' = IF result.raised THEN <<>> ELSE result.result_data

\* enrich_events(request, use_cache), lines 28-115, at the instant enrich_clock
EnrichEvents ==
    /\ enrichments < MaxEnrichments
    /\ \E use_cache \in BOOLEAN :
          Answer(use_cache, EnrichResult(enrich_request, use_cache, classifier,
                                         enrich_cache, enrich_clock))
    /\ enrichments' = enrichments + 1
    /\ UNCHANGED <<enrich_clock, enrich_request, classifier>>
    /\ UNCHANGED <<recVars, prefVars, impVars, expVars, cacheVars, anaVars, taskVars, keyVars>>

NextEnrich == EnrichTick \/ EnrichEvents

SpecEnrich == InitEnrich /\ [][NextEnrich]_vars

-----------------------------------------------------------------------------
(* CacheService over JSONStorage, step by step (app/services/cache.py,      *)
(* app/services/json_storage.py)                                           *)

MaxCallers == 2   \* callers that use the cache service of one stage at a time
MaxCalls == 2     \* get_or_cache calls of one caller in one behaviour

Callers == 1..MaxCallers

\* the input hashes the callers ask for
KeySet == {"k1", "k2"}

\* A value of a result is a datetime or a text; json.dump writes a datetime
\* as its ISO text (_json_serializer, lines 52-56) and json.load gives the
\* text back.
Datetime(v) == [kind |-> "datetime", v |-> v]
IsoText(v) == [kind |-> "str", v |-> v]

\* what the compute function of the stage returns for the input of hash
\* `key` when it runs at the instant clk (the import stage: importer.py
\* lines 93-112, a dict with generated_at)
Compute(key, clk) == [of |-> key, generated_at |-> Datetime(clk)]

\* the result_data as the cache file holds it and as json.load returns it
JsonDump(result_data) ==
    [of |-> result_data.of, generated_at |-> IsoText(result_data.generated_at.v)]

\* The cache file of the stage.  kind "missing": no such file; "json": the
\* complete text of a JSON object, whose entries are `entries`; "empty": a
\* file of length 0; "torn": a text that is not one complete JSON document;
\* "unreadable": open() raises an IOError; "bad_utf8": bytes that are not
\* UTF-8; "not_object": the complete JSON text of a list.  size is the
\* length of the text, counted in entries (entries have one length).
File(kind, entries) == [kind |-> kind, entries |-> entries, size |-> Cardinality(entries)]
TornFile(size) == [kind |-> "torn", entries |-> {}, size |-> size]

\* _load_json, lines 32-40.  outcome "dict": the dict returned, also {} for
\* a missing file and after JSONDecodeError or IOError; "raises": the
\* UnicodeDecodeError of the decoder is not caught; "not_dict": json.load
\* returned a list.
LoadJson(file) ==
    CASE file.kind = "json" -> [outcome |-> "dict", data |-> file.entries]
      [] file.kind \in {"missing", "empty", "torn", "unreadable"} ->
            [outcome |-> "dict", data |-> {}]
      [] file.kind = "bad_utf8" -> [outcome |-> "raises", data |-> {}]
      [] file.kind = "not_object" -> [outcome |-> "not_dict", data |-> {}]

\* _save_json line 45: open(file_path, 'w') truncates the file; on a file
\* that cannot be opened it raises IOError and nothing is written
CanOpen(file) == file.kind # "unreadable"
Truncated(file) == File("empty", {})

\* _save_json lines 46-47: json.dump through the handle opened at line 45
\* and its close.  The text goes to the start of the file; what another
\* handle wrote beyond its length in the meantime stays behind it.
Written(file, data) ==
    IF Cardinality(data) >= file.size THEN File("json", data)
    ELSE TornFile(file.size)

\* save_cache_entry lines 93-101: the entry, and the dict with it
Entry(input_hash, result_data, clk, expires_hours) ==
    [input_hash |-> input_hash, result_data |-> JsonDump(result_data),
     created_at |-> clk, expires_at |-> clk + expires_hours * MinPerHour]

WithEntry(cache_data, entry) ==
    {e \in cache_data : e.input_hash # entry.input_hash} \cup {entry}

\* cache_data.get(input_hash), line 73: <<>> is None
EntryOf(cache_data, input_hash) ==
    IF \E e \in cache_data : e.input_hash = input_hash
    THEN <<CHOOSE e \in cache_data : e.input_hash = input_hash>>
    ELSE <<>>

\* a lookup that does not look at the age of the entry
TooOldNever(entry, clk, max_age_hours) == FALSE

\* get_cache_entry line 79 and get_cached_result lines 51-55
Expired(entry, clk) == clk > entry.expires_at
TooOld(entry, clk, max_age_hours) == entry.created_at < clk - max_age_hours * MinPerHour

\* the file is complete and holds, under input_hash, the result result_data
Holds(file, input_hash, result_data) ==
    /\ file.kind = "json"
    /\ EntryOf(file.entries, input_hash) # <<>>
    /\ EntryOf(file.entries, input_hash)[1].result_data = JsonDump(result_data)

\* a lookup at the instant clk is made before the expiry of the entry a
\* store wrote and within the caller's max age
InTime(stored, clk) ==
    /\ clk <= stored.expires_at
    /\ clk - stored.created_at <= MaxAgeHours * MinPerHour

\* last_store after caller c touched the file: what was stored under c's
\* own input hash is written over
WrittenOver(c) == [last_store EXCEPT ![callers[c].key] = <<>>]

\* a caller between two calls
IdleCaller ==
    [pc |-> "idle", key |-> "", loaded |-> {}, result |-> <<>>, returned |-> <<>>,
     hit |-> FALSE, hit_entry |-> <<>>, lookup_at |-> 0, verdict |-> "",
     promised |-> <<>>, raised |-> FALSE, computes |-> 0, calls |-> 0,
     alone |-> TRUE, seen |-> <<>>, write_failed |-> FALSE, stored |-> FALSE]

\* an entry a run of the service left in the file one minute before the
\* model starts
OldEntry == Entry("k2", Compute("k2", -1), -1, ExpiresHours)

\* an entry of that run under an input hash no caller of the model asks for
OtherEntry == Entry("k0", Compute("k0", -1), -1, ExpiresHours)

\* the states the cache file may be found in
FirstFileSet ==
    {File("missing", {}), File("json", {OldEntry, OtherEntry}),
     File("unreadable", {}), File("bad_utf8", {}), File("not_object", {})}

\* the first instant, and 25 and 49 hours later
CacheClockSet == {0, 25 * MinPerHour, 49 * MinPerHour}

\* another caller is inside a call
OthersBusy(c) == \E d \in Callers \ {c} : callers[d].pc # "idle"

\* When caller c does a step, every other caller that is inside a call
\* stops being alone.  `mine` is c's record after the step.
After(c, mine) ==
    [d \in Callers |->
        IF d = c THEN mine
        ELSE IF callers[d].pc # "idle" THEN [callers[d] EXCEPT !.alone = FALSE]
        ELSE callers[d]]

InitCache ==
    /\ KeysIdle
    /\ TasksIdle
    /\ AnalyzerIdle
    /\ RecommenderIdle
    /\ PreferenceIdle
    /\ ImporterIdle
    /\ ExpandIdle
    /\ EnricherIdle
    /\ cache_clock = 0
    /\ cache_file \in FirstFileSet
    /\ callers = [c \in Callers |-> IdleCaller]
    /\ last_store = [k \in KeySet |-> <<>>]

\* time passes
CacheTick ==
    /\ \E later \in CacheClockSet : later > cache_clock /\ cache_clock' = later
    /\ UNCHANGED <<cache_file, callers, last_store>>
    /\ UNCHANGED <<recVars, prefVars, impVars, expVars, enrVars, anaVars, taskVars, keyVars>>

\* get_or_cache is called (cache.py line 96); a caller sends the same input
\* at every call
Call(c) ==
    /\ callers[c].pc = "idle"
    /\ callers[c].calls < MaxCalls
    /\ \E key \in (IF callers[c].calls = 0 THEN KeySet ELSE {callers[c].key}) :
          callers' = After(c, [IdleCaller EXCEPT !.pc = "lookup", !.key = key,
                                                 !.calls = callers[c].calls + 1,
                                                 !.alone = ~OthersBusy(c)])
    /\ UNCHANGED <<cache_clock, cache_file, last_store>>
    /\ UNCHANGED <<recVars, prefVars, impVars, expVars, enrVars, anaVars, taskVars, keyVars>>

\* get_cached_result, lines 43-59, with get_cache_entry lines 70-79 and 85:
\* the file is read and the entry is judged
Lookup(c) ==
    LET me == callers[c]
        got == LoadJson(cache_file)
        entry == EntryOf(got.data, me.key)
        seen == [kind |-> cache_file.kind,
                 writing |-> \E d \in Callers \ {c} :
                                 callers[d].pc \in {"expire_write", "store_write"}]
        promised ==
            IF last_store[me.key] # <<>> /\ InTime(last_store[me.key][1], cache_clock)
            THEN last_store[me.key] ELSE <<>>
        looked == [me EXCEPT !.seen = seen, !.lookup_at = cache_clock,
                             !.promised = promised]
    IN /\ me.pc = "lookup"
       /\ callers' =
            After(c,
              IF got.outcome # "dict"
              THEN [looked EXCEPT !.pc = "idle", !.raised = TRUE]
              ELSE IF entry = <<>>
              THEN [looked EXCEPT !.pc = "compute", !.verdict = "missing"]
              ELSE IF Expired(entry[1], cache_clock)
              THEN [looked EXCEPT !.pc = "expire_open", !.verdict = "expired",
                                  !.loaded = got.data \ {entry[1]}]
              ELSE IF TooOld(entry[1], cache_clock, MaxAgeHours)
              THEN [looked EXCEPT !.pc = "compute", !.verdict = "too_old"]
              ELSE [looked EXCEPT !.pc = "idle", !.verdict = "hit", !.hit = TRUE,
                                  !.hit_entry = entry,
                                  !.returned = <<entry[1].result_data>>])
       /\ UNCHANGED <<cache_clock, cache_file, last_store>>
       /\ UNCHANGED <<recVars, prefVars, impVars, expVars, enrVars, anaVars, taskVars, keyVars>>

\* get_cache_entry lines 81-82, _save_json line 45: the file is opened for
\* writing
ExpireOpen(c) ==
    /\ callers[c].pc = "expire_open"
    /\ IF CanOpen(cache_file)
       THEN /\ cache_file' = Truncated(cache_file)
            /\ callers' = After(c, [callers[c] EXCEPT !.pc = "expire_write"])
       ELSE /\ cache_file' = cache_file
            /\ callers' = After(c, [callers[c] EXCEPT !.pc = "compute"])
    /\ last_store' = WrittenOver(c)
    /\ UNCHANGED cache_clock
    /\ UNCHANGED <<recVars, prefVars, impVars, expVars, enrVars, anaVars, taskVars, keyVars>>

\* _save_json lines 46-47 for the dict without the expired entry
ExpireWrite(c) ==
    /\ callers[c].pc = "expire_write"
    /\ cache_file' = Written(cache_file, callers[c].loaded)
    /\ callers' = After(c, [callers[c] EXCEPT !.pc = "compute"])
    /\ last_store' = WrittenOver(c)
    /\ UNCHANGED cache_clock
    /\ UNCHANGED <<recVars, prefVars, impVars, expVars, enrVars, anaVars, taskVars, keyVars>>

\* get_or_cache line 123: the compute function runs
ComputeResult(c) ==
    /\ callers[c].pc = "compute"
    /\ callers' = After(c, [callers[c] EXCEPT !.pc = "store_load",
                                              !.result = <<Compute(callers[c].key, cache_clock)>>,
                                              !.computes = callers[c].computes + 1])
    /\ UNCHANGED <<cache_clock, cache_file, last_store>>
    /\ UNCHANGED <<recVars, prefVars, impVars, expVars, enrVars, anaVars, taskVars, keyVars>>

\* cache_result lines 80-83 and save_cache_entry lines 90-101: the file is
\* read again and the entry is put into the dict
StoreLoad(c) ==
    LET me == callers[c]
        got == LoadJson(cache_file)
    IN /\ me.pc = "store_load"
       /\ callers' =
            After(c,
              IF got.outcome # "dict"
              THEN [me EXCEPT !.pc = "idle", !.raised = TRUE]
              ELSE [me EXCEPT !.pc = "store_open",
                              !.loaded = WithEntry(got.data,
                                                   Entry(me.key, me.result[1], cache_clock,
                                                         ExpiresHours))])
       /\ UNCHANGED <<cache_clock, cache_file, last_store>>
       /\ UNCHANGED <<recVars, prefVars, impVars, expVars, enrVars, anaVars, taskVars, keyVars>>

\* save_cache_entry line 102, _save_json line 45; when the file cannot be
\* opened _save_json returns False and get_or_cache returns the result
StoreOpen(c) ==
    /\ callers[c].pc = "store_open"
    /\ IF CanOpen(cache_file)
       THEN /\ cache_file' = Truncated(cache_file)
            /\ callers' = After(c, [callers[c] EXCEPT !.pc = "store_write"])
       ELSE /\ cache_file' = cache_file
            /\ callers' = After(c, [callers[c] EXCEPT !.pc = "idle", !.write_failed = TRUE,
                                                      !.returned = callers[c].result])
    /\ last_store' = WrittenOver(c)
    /\ UNCHANGED cache_clock
    /\ UNCHANGED <<recVars, prefVars, impVars, expVars, enrVars, anaVars, taskVars, keyVars>>

\* _save_json lines 46-47 and get_or_cache line 128: the text is written,
\* the handle closed and the result returned
StoreWrite(c) ==
    /\ callers[c].pc = "store_write"
    /\ cache_file' = Written(cache_file, callers[c].loaded)
    /\ callers' = After(c, [callers[c] EXCEPT !.pc = "idle",
                                              !.returned = callers[c].result,
                                              !.stored = Holds(cache_file', callers[c].key,
                                                               callers[c].result[1])])
    /\ last_store' = [last_store EXCEPT ![callers[c].key] =
                          <<[result_data |-> callers[c].result[1],
                             created_at |-> EntryOf(callers[c].loaded, callers[c].key)[1].created_at,
                             expires_at |-> EntryOf(callers[c].loaded, callers[c].key)[1].expires_at]>>]
    /\ UNCHANGED cache_clock
    /\ UNCHANGED <<recVars, prefVars, impVars, expVars, enrVars, anaVars, taskVars, keyVars>>

\* _save_json lines 46-50: json.dump raises IOError before a byte reaches
\* the file; False is returned and get_or_cache returns the result
StoreWriteFails(c) ==
    /\ callers[c].pc = "store_write"
    /\ callers' = After(c, [callers[c] EXCEPT !.pc = "idle", !.write_failed = TRUE,
                                              !.returned = callers[c].result])
    /\ UNCHANGED <<cache_clock, cache_file, last_store>>
    /\ UNCHANGED <<recVars, prefVars, impVars, expVars, enrVars, anaVars, taskVars, keyVars>>

NextCache ==
    \/ CacheTick
    \/ \E c \in Callers :
          \/ Call(c)
          \/ Lookup(c)
          \/ ExpireOpen(c)
          \/ ExpireWrite(c)
          \/ ComputeResult(c)
          \/ StoreLoad(c)
          \/ StoreOpen(c)
          \/ StoreWrite(c)
          \/ StoreWriteFails(c)

SpecCache == InitCache /\ [][NextCache]_vars

-----------------------------------------------------------------------------
(* AnalyzerService (app/services/analyzer.py)                              *)
(*                                                                         *)
(* An analysed event is [start, end, event_type, attendees]: two datetimes *)
(* [t, off], the category, and the number of attendees.  Hours of the day  *)
(* are counted in half minutes, so that the median of two starts is exact; *)
(* the starts and ends of the events of the model are multiples of 15      *)
(* minutes, for which hour + minute / 60 and the median of two such values *)
(* are exact binary fractions.  A TimeWindow is [sh, sm, eh, em,           *)
(* confidence, sample_size]: the digits of its "HH:MM" texts, the          *)
(* confidence in units of 1/120.  The `patterns` of the response are not   *)
(* part of the model.                                                      *)

MaxAnalyzed == 3   \* events of one analyze request
MaxAnalyses == 2   \* analyze_habits calls in one behaviour

MinPerWeek == 10080

WindowConfOne == 120   \* TimeWindow.confidence 1.0 (schemas.py line 150)

\* settings.default_time_windows, config.py lines 44-56
DefaultTimeWindows(event_type) ==
    CASE event_type = "work" -> <<9, 18>>
      [] event_type = "study" -> <<19, 21>>
      [] event_type = "health" -> <<7, 9>>
      [] event_type = "household" -> <<10, 12>>
      [] event_type = "family" -> <<18, 22>>
      [] event_type = "creative" -> <<20, 22>>
      [] event_type = "travel" -> <<8, 20>>
      [] event_type = "leisure" -> <<19, 23>>
      [] event_type = "routine" -> <<7, 8>>
      [] OTHER -> <<9, 21>>

TimeWindow(sh, sm, eh, em, confidence, sample_size) ==
    [sh |-> sh, sm |-> sm, eh |-> eh, em |-> em,
     confidence |-> confidence, sample_size |-> sample_size]

\* lines 42-45: the events that start at or after the cutoff
RelevantEvents(events, analysis_weeks, clk) ==
    SelectSeq(events, LAMBDA e : e.start.t >= clk - analysis_weeks * MinPerWeek)

\* lines 104-110: events_by_type.get(event_type, [])
TypeEvents(events, event_type) ==
    SelectSeq(events, LAMBDA e : e.event_type = event_type)

\* lines 138-143: start.hour + start.minute / 60, in half minutes
StartHours(events) ==
    [i \in 1..Len(events) |-> 2 * MinuteOfDay(events[i].start.t, events[i].start.off)]
EndHours(events) ==
    [i \in 1..Len(events) |-> 2 * MinuteOfDay(events[i].end.t, events[i].end.off)]

\* list.sort() and an index into the sorted list (lines 151-159): the value
\* at the 0-based index idx
SortedAt(values, idx) ==
    CHOOSE v \in {values[i] : i \in DOMAIN values} :
        /\ Cardinality({i \in DOMAIN values : values[i] < v}) <= idx
        /\ Cardinality({i \in DOMAIN values : values[i] <= v}) > idx

\* statistics.median of one or two values (lines 167-168)
Median(values) ==
    IF Len(values) = 1 THEN values[1] ELSE (values[1] + values[2]) \div 2

\* lines 162-163: the window is widened when it is narrower than an hour
Widened(window_start, window_end) ==
    [s |-> window_start,
     e |-> IF window_end - window_start < 120 THEN window_start + 120 ELSE window_end]

\* lines 149-168: window_start and window_end
WindowBounds(start_hours, end_hours) ==
    IF Len(start_hours) >= 3
    THEN Widened(SortedAt(start_hours, Len(start_hours) \div 4),
                 SortedAt(end_hours, (3 * Len(end_hours)) \div 4))
    ELSE [s |-> Median(start_hours), e |-> Median(end_hours)]

RECURSIVE SumOf(_)
SumOf(values) == IF values = <<>> THEN 0 ELSE Head(values) + SumOf(Tail(values))

SquaresOf(values) == [i \in DOMAIN values |-> values[i] * values[i]]

\* the largest r with r * r <= v
Isqrt(v) == CHOOSE r \in 0..(2 * MinPerDay) : r * r <= v /\ v < (r + 1) * (r + 1)

\* statistics.stdev (lines 177-178), in half minutes, rounded down
Stdev(values) ==
    Isqrt((Len(values) * SumOf(SquaresOf(values)) - SumOf(values) * SumOf(values))
              \div (Len(values) * (Len(values) - 1)))

\* lines 175-184: max(0.0, min(1.0, 2.0 - (std_start + std_end) / 2)), and
\* 0.3 for one or two samples
WindowConfidence(start_hours, end_hours) ==
    IF Len(start_hours) >= 3
    THEN Max2(0, Min2(WindowConfOne,
                      2 * WindowConfOne - (Stdev(start_hours) + Stdev(end_hours)) \div 2))
    ELSE (3 * WindowConfOne) \div 10

\* lines 171-172 and 186-191: f"{int(x):02d}:{int((x % 1) * 60):02d}"
FormatWindow(bounds, confidence, sample_size) ==
    TimeWindow(bounds.s \div 120, (bounds.s % 120) \div 2,
               bounds.e \div 120, (bounds.e % 120) \div 2, confidence, sample_size)

\* _calculate_time_window, lines 128-191
CalculateTimeWindow(events) ==
    IF events = <<>> THEN TimeWindow(9, 0, 17, 0, 0, 0)
    ELSE FormatWindow(WindowBounds(StartHours(events), EndHours(events)),
                      WindowConfidence(StartHours(events), EndHours(events)),
                      Len(events))

\* DefaultWindow with the sample size hidden
DefaultWindowHidden(event_type, sample_size) ==
    TimeWindow(DefaultTimeWindows(event_type)[1], 0, DefaultTimeWindows(event_type)[2], 0,
               0, 0)

\* lines 116-124: the built-in window of the category
DefaultWindow(event_type, sample_size) ==
    TimeWindow(DefaultTimeWindows(event_type)[1], 0, DefaultTimeWindows(event_type)[2], 0,
               0, sample_size)

\* lines 109-124, for one category
WindowOf(type_events, event_type, min_sample_size) ==
    IF Len(type_events) >= min_sample_size THEN CalculateTimeWindow(type_events)
    ELSE DefaultWindow(event_type, Len(type_events))

\* _analyze_time_windows, lines 94-126
AnalyzeTimeWindows(events, min_sample_size) ==
    [event_type \in EventTypeSet |->
        WindowOf(TypeEvents(events, event_type), event_type, min_sample_size)]

\* lines 201-202
WeekEvents(events, clk) ==
    SelectSeq(events, LAMBDA e : e.start.t >= clk - 7 * MinPerDay)

\* (event.end - event.start), in minutes
Durations(events) == [i \in 1..Len(events) |-> events[i].end.t - events[i].start.t]

\* round(x) of Python for the quotient num / den: to the nearest, a tie to
\* the even neighbour
RoundHalfEven(num, den) ==
    IF 2 * (num % den) < den THEN num \div den
    ELSE IF 2 * (num % den) > den THEN num \div den + 1
    ELSE IF (num \div den) % 2 = 0 THEN num \div den
    ELSE num \div den + 1

\* lines 219-230: hours of the work events with (meetings) or without
\* (focus) attendees, in minutes
MeetingEvents(week_events) ==
    SelectSeq(week_events, LAMBDA e : e.event_type = "work" /\ e.attendees > 0)
FocusEvents(week_events) ==
    SelectSeq(week_events, LAMBDA e : e.event_type = "work" /\ e.attendees = 0)

\* lines 233-241: the day with the most events, the first of them in the
\* order of the list; <<>> is None
BusiestDay(week_events) ==
    IF week_events = <<>> THEN <<>>
    ELSE LET day(i) == DateOf(week_events[i].start.t, week_events[i].start.off)
             count(i) == Cardinality({j \in DOMAIN week_events : day(j) = day(i)})
             best == CHOOSE i \in DOMAIN week_events :
                         /\ \A j \in DOMAIN week_events : count(j) <= count(i)
                         /\ \A j \in 1..(i - 1) : count(j) < count(i)
         IN <<day(best)>>

\* lines 205-253, over week_events; hours in tenths, by_category in minutes
Aggregates(week_events) ==
    [total_events |-> Len(week_events),
     meetings_hours |-> RoundHalfEven(SumOf(Durations(MeetingEvents(week_events))), 6),
     focus_hours |-> RoundHalfEven(SumOf(Durations(FocusEvents(week_events))), 6),
     by_category |->
         [event_type \in {week_events[i].event_type : i \in DOMAIN week_events} |->
             SumOf(Durations(TypeEvents(week_events, event_type)))],
     busiest_day |-> BusiestDay(week_events),
     average_duration_min |->
         IF week_events = <<>> THEN 0
         ELSE RoundHalfEven(SumOf(Durations(week_events)), Len(week_events))]

\* _calculate_dashboard_aggregates, lines 193-253
CalculateDashboardAggregates(events, clk) == Aggregates(WeekEvents(events, clk))

\* _compute_analyze, lines 36-67, from its relevant events on
AnalyzeRelevant(req, relevant_events, clk) ==
    [response_data |->
         [tz |-> req.tz,
          default_windows |-> AnalyzeTimeWindows(relevant_events, req.min_sample_size),
          dashboard_aggregates |-> CalculateDashboardAggregates(relevant_events, clk)],
     relevant_events |-> relevant_events,
     week_events |-> WeekEvents(relevant_events, clk)]

ComputeAnalyze(req, clk) ==
    AnalyzeRelevant(req, RelevantEvents(req.events, req.analysis_weeks, clk), clk)

AnalyzeMaxAgeHours == 12   \* analyzer.py line 74
AnalyzeExpiresHours == 24  \* analyzer.py line 75

\* lines 29-34: what the cache key is made of
AnalyzeCacheInput(req) ==
    [tz |-> req.tz, events |-> req.events, analysis_weeks |-> req.analysis_weeks,
     min_sample_size |-> req.min_sample_size]

\* what analyze_habits hands back when _compute_analyze ran
Analyzed(computed, cache_after) ==
    [from_cache |-> FALSE, result_data |-> computed.response_data,
     relevant_events |-> computed.relevant_events,
     week_events |-> computed.week_events, cache_data |-> cache_after]

\* CacheService.get_or_cache, cache.py lines 96-128, after its lookup
\* brought `cached`
AnalyzeGetOrCache(req, computed, clk, cached) ==
    IF cached.result # <<>>
    THEN [from_cache |-> TRUE, result_data |-> cached.result[1],
          relevant_events |-> <<>>, week_events |-> <<>>,
          cache_data |-> cached.cache_data]
    ELSE Analyzed(computed,
                  CacheResult(cached.cache_data, AnalyzeCacheInput(req),
                              computed.response_data, AnalyzeExpiresHours, clk))

\* lines 69-92: get_or_cache around _compute_analyze, or the direct call
AnalyzeResult(req, use_cache, cache_data, clk) ==
    IF ~use_cache THEN Analyzed(ComputeAnalyze(req, clk), cache_data)
    ELSE AnalyzeGetOrCache(req, ComputeAnalyze(req, clk), clk,
                           GetCachedResult(cache_data, AnalyzeCacheInput(req),
                                           AnalyzeMaxAgeHours, clk))

-----------------------------------------------------------------------------
(* Inputs of the analyze stage                                             *)

\* the first instant of the analyze clock: Monday 12:00 of week 4
AnalyzeNow == 4 * MinPerWeek + 12 * MinPerHour

AnalyzedEvent(event_type, start, minutes, attendees) ==
    [start |-> Dt(start, 0), end |-> Dt(start + minutes, 0),
     event_type |-> event_type, attendees |-> attendees]

\* Relative to AnalyzeNow:
\*   1  work, two days before, 10:00-10:30, two attendees
\*   2  work, three days before, 10:00-10:45, no attendees
\*   3  work, the day after, 09:00-10:00, no attendees
\*   4  work, ten days before, 12:30-13:30, one attendee
\*   5  work, twenty days before, 10:15-10:30, no attendees
\*   6  family, the day before, 23:00-00:30, three attendees
\*   7  work, three days before, 16:00-17:45, no attendees
AnalyzePool ==
    <<AnalyzedEvent("work", AnalyzeNow - 2 * MinPerDay - 120, 30, 2),
      AnalyzedEvent("work", AnalyzeNow - 3 * MinPerDay - 120, 45, 0),
      AnalyzedEvent("work", AnalyzeNow + MinPerDay - 180, 60, 0),
      AnalyzedEvent("work", AnalyzeNow - 10 * MinPerDay + 30, 60, 1),
      AnalyzedEvent("work", AnalyzeNow - 20 * MinPerDay - 105, 15, 0),
      AnalyzedEvent("family", AnalyzeNow - MinPerDay + 660, 90, 3),
      AnalyzedEvent("work", AnalyzeNow - 3 * MinPerDay + 240, 105, 0)>>

\* the events of the pool with index in I, in pool order
RECURSIVE PoolAnalyzed(_, _)
PoolAnalyzed(I, i) ==
    IF i > Len(AnalyzePool) THEN <<>>
    ELSE (IF i \in I THEN <<AnalyzePool[i]>> ELSE <<>>) \o PoolAnalyzed(I, i + 1)

AnalyzeRequestSet ==
    {[tz |-> "Europe/Moscow", events |-> PoolAnalyzed(I, 1),
      analysis_weeks |-> w, min_sample_size |-> m] :
        I \in {J \in SUBSET (1..Len(AnalyzePool)) : Cardinality(J) <= MaxAnalyzed},
        w \in {1, 3}, m \in {1, 3, 4}}

\* the first request time, and 13 and 25 hours later
AnalyzeClockSet ==
    {AnalyzeNow, AnalyzeNow + 13 * MinPerHour, AnalyzeNow + 25 * MinPerHour}

-----------------------------------------------------------------------------
(* The analyze handler as a state machine                                  *)

\* A client holds one analyze request and sends it again; the cache file
\* starts empty.
InitAnalyze ==
    /\ KeysIdle
    /\ TasksIdle
    /\ RecommenderIdle
    /\ PreferenceIdle
    /\ ImporterIdle
    /\ ExpandIdle
    /\ EnricherIdle
    /\ CacheIdle
    /\ analyze_clock = AnalyzeNow
    /\ analyze_request \in AnalyzeRequestSet
    /\ analyze_cache = {}
    /\ analyze_call = <<>>
    /\ analyze_response = <<>>
    /\ analyses = 0

\* time passes
AnalyzeTick ==
    /\ \E later \in AnalyzeClockSet : later > analyze_clock /\ analyze_clock' = later
    /\ UNCHANGED <<analyze_request, analyze_cache, analyze_call, analyze_response, analyses>>
    /\ UNCHANGED <<recVars, prefVars, impVars, expVars, enrVars, cacheVars, taskVars, keyVars>>

\* lines 80-92: the response of one call, and the cache file it leaves
AnalyzeAnswer(use_cache, result) ==
    /\ analyze_cache' = result.cache_data
    /\ analyze_call' = [use_cache |-> use_cache, at |-> analyze_clock,
                        from_cache |-> result.from_cache,
                        relevant_events |-> result.relevant_events,
                        week_events |-> result.week_events]
    /\ analyze_response' = result.result_data

\* analyze_habits(request, use_cache), lines 26-92, at the instant analyze_clock
AnalyzeHabits ==
    /\ analyses < MaxAnalyses
    /\ \E use_cache \in BOOLEAN :
          AnalyzeAnswer(use_cache, AnalyzeResult(analyze_request, use_cache,
                                                 analyze_cache, analyze_clock))
    /\ analyses' = analyses + 1
    /\ UNCHANGED <<analyze_clock, analyze_request>>
    /\ UNCHANGED <<recVars, prefVars, impVars, expVars, enrVars, cacheVars, taskVars, keyVars>>

NextAnalyze == AnalyzeTick \/ AnalyzeHabits

SpecAnalyze == InitAnalyze /\ [][NextAnalyze]_vars

-----------------------------------------------------------------------------------------------------------------------------------------------------
(* Background tasks (src/app/services/background.py, json_storage.py)      *)
(*                                                                         *)
(* Every storage operation of the service runs in a worker thread          *)
(* (asyncio.to_thread, lines 71, 231, 252), so the load and the save of    *)
(* two operations can interleave.  Of a stored task the status, progress,  *)
(* current_stage and the stages that have a result are modelled.           *)

MaxTasks == 1
MaxCancels == 2

TaskIds == 1..MaxTasks

\* task_data of create_ics_processing_task, lines 52-66
NewTask == [status |-> "pending", progress |-> 0, current_stage |-> "pending", results |-> {}]

\* one storage operation or service call of the coroutine of a task; progress
\* and current_stage are <<>> for None
Op(op, status, progress, current_stage) == [op |-> op, status |-> status, progress |-> progress, current_stage |-> current_stage]

\* create_ics_processing_task line 71, then _process_ics_task lines 82-145 in
\* program order
PipelineOps ==
    << Op("create", "pending", <<>>, <<>>),
       Op("status", "running", <<0>>, <<"import">>),
       Op("call", "import", <<>>, <<>>),
       Op("result", "import", <<>>, <<>>),
       Op("status", "running", <<33>>, <<"enrich">>),
       Op("call", "enrich", <<>>, <<>>),
       Op("result", "enrich", <<>>, <<>>),
       Op("status", "running", <<66>>, <<"analyze">>),
       Op("call", "analyze", <<>>, <<>>),
       Op("result", "analyze", <<>>, <<>>),
       Op("status", "completed", <<100>>, <<"completed">>) >>

\* the except branch, lines 147-154
FailedOp == Op("status", "failed", <<>>, <<>>)

\* cancel_task, lines 185-189
CancelOp == Op("status", "cancelled", <<>>, <<>>)

\* positions of a coroutine after the operations of PipelineOps
AtFailed == Len(PipelineOps) + 1
AtEnd == Len(PipelineOps) + 2

OpAt(at) == IF at = AtFailed THEN FailedOp ELSE PipelineOps[at]

\* where the coroutine goes after the operation at pc has returned
AfterOp(at) == IF at = AtFailed \/ at = Len(PipelineOps) THEN AtEnd ELSE at + 1

\* _update_task_status, lines 216-227: the updates dictionary applied by
\* tasks_data[task_id].update(updates), json_storage.py line 203
StatusUpdated(task, op) == [task EXCEPT !.status = op.status, !.progress = IF op.progress = <<>> THEN @ ELSE op.progress[1], !.current_stage = IF op.current_stage = <<>> THEN @ ELSE op.current_stage[1]]

\* _update_task_result, lines 246-249: the results of the task that was got,
\* with the stage added, replace the stored results
ResultUpdated(task, got, stage) == [task EXCEPT !.results = got \cup {stage}]

\* tasks_data with the entry of task_id set, json_storage.py lines 186, 203
Stored(tasks_data, task_id, task) == [t \in DOMAIN tasks_data \cup {task_id} |-> IF t = task_id THEN task ELSE tasks_data[t]]

\* a storage thread: phase is idle, got (get_background_task returned) or
\* loaded (_load_json returned); got is the results of the task that was got
\* and data is the tasks_data that was loaded
Thread(phase, got, data) == [phase |-> phase, got |-> got, data |-> data]

IdleThread == Thread("idle", {}, <<>>)

\* what the operation op of the task, with its file loaded as data, writes
TasksWritten(op, task_id, got, data) ==
    CASE op.op = "create" -> Stored(data, task_id, NewTask)
      [] op.op = "status" -> Stored(data, task_id, StatusUpdated(data[task_id], op))
      [] op.op = "result" -> Stored(data, task_id, ResultUpdated(data[task_id], got, op.status))

InitTasks ==
    /\ KeysIdle
    /\ RecommenderIdle
    /\ PreferenceIdle
    /\ ImporterIdle
    /\ ExpandIdle
    /\ EnricherIdle
    /\ CacheIdle
    /\ AnalyzerIdle
    /\ tasks_file = <<>>
    /\ task_pc = [t \in TaskIds |-> 1]
    /\ task_thread = [t \in TaskIds |-> IdleThread]
    /\ cancel_thread = <<>>
    /\ cancel_result = FALSE
    /\ cancels = 0

\* get_background_task inside _update_task_result, lines 244-245 and 250: a
\* task that is not in the file ends the operation with False
GetTask(t) ==
    /\ task_pc[t] <= AtFailed
    /\ OpAt(task_pc[t]).op = "result"
    /\ task_thread[t].phase = "idle"
    /\ IF t \in DOMAIN tasks_file
       THEN /\ task_thread' = [task_thread EXCEPT ![t] = Thread("got", tasks_file[t].results, <<>>)]
            /\ UNCHANGED task_pc
       ELSE /\ task_pc' = [task_pc EXCEPT ![t] = AfterOp(@)]
            /\ UNCHANGED task_thread
    /\ UNCHANGED <<tasks_file, cancel_thread, cancel_result, cancels>>
    /\ UNCHANGED <<recVars, prefVars, impVars, expVars, enrVars, cacheVars, anaVars, keyVars>>

\* _load_json of create_background_task (line 181) and of
\* update_background_task (lines 198-201): an update of a task that is not in
\* the file ends with False
LoadTasks(t) ==
    /\ task_pc[t] <= AtFailed
    /\ \/ OpAt(task_pc[t]).op \in {"create", "status"} /\ task_thread[t].phase = "idle"
       \/ OpAt(task_pc[t]).op = "result" /\ task_thread[t].phase = "got"
    /\ IF OpAt(task_pc[t]).op = "create" \/ t \in DOMAIN tasks_file
       THEN /\ task_thread' = [task_thread EXCEPT ![t] = Thread("loaded", @.got, <<tasks_file>>)]
            /\ UNCHANGED task_pc
       ELSE /\ task_pc' = [task_pc EXCEPT ![t] = AfterOp(@)]
            /\ task_thread' = [task_thread EXCEPT ![t] = IdleThread]
    /\ UNCHANGED <<tasks_file, cancel_thread, cancel_result, cancels>>
    /\ UNCHANGED <<recVars, prefVars, impVars, expVars, enrVars, cacheVars, anaVars, keyVars>>

\* _save_json of create_background_task (line 187) and of
\* update_background_task (lines 203-204): the whole file is written from the
\* data that the thread loaded
SaveTasks(t) ==
    /\ task_thread[t].phase = "loaded"
    /\ tasks_file' = TasksWritten(OpAt(task_pc[t]), t, task_thread[t].got, task_thread[t].data[1])
    /\ task_pc' = [task_pc EXCEPT ![t] = AfterOp(@)]
    /\ task_thread' = [task_thread EXCEPT ![t] = IdleThread]
    /\ UNCHANGED <<cancel_thread, cancel_result, cancels>>
    /\ UNCHANGED <<recVars, prefVars, impVars, expVars, enrVars, cacheVars, anaVars, keyVars>>

\* a stage of the pipeline, lines 99, 115, 132: the service returns, or it
\* raises and the coroutine goes to the except branch
RunStage(t) ==
    /\ task_pc[t] <= Len(PipelineOps)
    /\ OpAt(task_pc[t]).op = "call"
    /\ \E raised \in BOOLEAN : task_pc' = [task_pc EXCEPT ![t] = IF raised THEN AtFailed ELSE AfterOp(@)]
    /\ UNCHANGED <<tasks_file, task_thread, cancel_thread, cancel_result, cancels>>
    /\ UNCHANGED <<recVars, prefVars, impVars, expVars, enrVars, cacheVars, anaVars, keyVars>>

\* cancel_task, lines 185-189, up to the _load_json of update_background_task:
\* a task that is not in the file makes the call return False
CancelLoad(t) ==
    /\ cancel_thread = <<>>
    /\ cancels < MaxCancels
    /\ cancels' = cancels + 1
    /\ IF t \in DOMAIN tasks_file
       THEN /\ cancel_thread' = <<[task_id |-> t, data |-> tasks_file]>>
            /\ UNCHANGED cancel_result
       ELSE /\ cancel_result' = FALSE
            /\ UNCHANGED cancel_thread
    /\ UNCHANGED <<tasks_file, task_pc, task_thread>>
    /\ UNCHANGED <<recVars, prefVars, impVars, expVars, enrVars, cacheVars, anaVars, keyVars>>

\* cancel_task, the _save_json of update_background_task and line 194
CancelSave ==
    /\ cancel_thread # <<>>
    /\ tasks_file' = TasksWritten(CancelOp, cancel_thread[1].task_id, {}, cancel_thread[1].data)
    /\ cancel_result' = TRUE
    /\ cancel_thread' = <<>>
    /\ UNCHANGED <<task_pc, task_thread, cancels>>
    /\ UNCHANGED <<recVars, prefVars, impVars, expVars, enrVars, cacheVars, anaVars, keyVars>>

NextTasks ==
    \/ \E t \in TaskIds : GetTask(t)
    \/ \E t \in TaskIds : LoadTasks(t)
    \/ \E t \in TaskIds : SaveTasks(t)
    \/ \E t \in TaskIds : RunStage(t)
    \/ \E t \in TaskIds : CancelLoad(t)
    \/ CancelSave

SpecTasks == InitTasks /\ [][NextTasks]_vars

-----------------------------------------------------------------------------
(* The key of the content cache (src/app/services/fs_cache.py,             *)
(* src/app/main.py lines 335-344)                                           *)
(*                                                                         *)
(* SHA-256 is modelled as injective: a digest is represented by the value  *)
(* that was hashed, so two keys are equal exactly when the normalised       *)
(* payloads are.                                                            *)

\* PIPELINE_VERSION, fs_cache.py line 100
PipelineVersion == "2025-08-14"

\* int(value or 0), lines 116-117; value is <<>> for None, <<n>> otherwise
IntOrZero(value) == IF value = <<>> THEN 0 ELSE value[1]

\* compute_cache_key, lines 107-122
ComputeCacheKey(ics_content, params) == [v |-> PipelineVersion, ics |-> ics_content, timezone |-> params.timezone, expand_recurring |-> params.expand_recurring, horizon_days |-> IntOrZero(params.horizon_days), days_limit |-> IntOrZero(params.days_limit), use_llm |-> params.use_llm]

\* params of import_enrichment_and_analyze_tasks, main.py lines 335-341, with
\* the uploaded content
KeyParamsSet ==
    [ics_content : {"ics-a", "ics-b"}, timezone : {"Europe/Moscow", "UTC"}, expand_recurring : BOOLEAN,
     horizon_days : {<<0>>, <<30>>}, days_limit : {<<>>, <<0>>, <<14>>}, use_llm : BOOLEAN]

InitKeys ==
    /\ RecommenderIdle
    /\ PreferenceIdle
    /\ ImporterIdle
    /\ ExpandIdle
    /\ EnricherIdle
    /\ CacheIdle
    /\ AnalyzerIdle
    /\ TasksIdle
    /\ key_params \in KeyParamsSet \X KeyParamsSet
    /\ cache_key = <<<<>>, <<>>>>

\* main.py line 344 for the i-th request
KeyOf(i) ==
    /\ cache_key[i] = <<>>
    /\ cache_key' = [cache_key EXCEPT ![i] = <<ComputeCacheKey(key_params[i].ics_content, key_params[i])>>]
    /\ UNCHANGED key_params
    /\ UNCHANGED <<recVars, prefVars, impVars, expVars, enrVars, cacheVars, anaVars, taskVars>>

NextKeys == \E i \in {1, 2} : KeyOf(i)

SpecKeys == InitKeys /\ [][NextKeys]_vars

-----
(* Claims about the recommender                                            *)

Overlap(s1, e1, s2, e2) == s1 < e2 /\ s2 < e1

Events == request.enriched_events
FutureEvents == {i \in 1..Len(Events) : Events[i].start >= now}
Generated == pc \in {"generated", "done"}

\* the recommendation and the alternatives of the response
Returned == <<response.recommendation>> \o response.alternatives

\* C1: the generated slots are pairwise disjoint, and no generated slot
\* overlaps the interval of a future event inflated by the buffers.
\* The code breaks it for an event whose datetime carries another UTC offset
\* than the service's: the walk selects busy intervals by comparing their own
\* wall-clock date with the service's date.
C1_SlotsDisjointFromBusy ==
    Generated =>
        /\ \A i, j \in 1..Len(free_slots) :
              i < j => ~Overlap(free_slots[i].start, free_slots[i].end,
                                free_slots[j].start, free_slots[j].end)
        /\ \A i \in 1..Len(free_slots), k \in FutureEvents :
              ~Overlap(free_slots[i].start, free_slots[i].end,
                       Events[k].start - settings.event_buffer_before,
                       Events[k].end + settings.event_buffer_after)

\* C2: every returned slot is disjoint from the interval of every event of
\* the request, also of an event that started before now and still runs.
\* Stated for the events written in the service's timezone (for the others
\* the defect of C1 applies).  The code drops an event that started before
\* now before it builds the busy intervals.
C2_ReturnedDisjointFromEvents ==
    (pc = "done" /\ free_slots # <<>>) =>
        \A p \in 1..Len(Returned), k \in {i \in 1..Len(Events) : Events[i].off = 0} :
            ~Overlap(Returned[p].slot.start, Returned[p].slot.end,
                     Events[k].start, Events[k].end)

\* The scenario of C3: a 60-minute request, a 09:00-18:00 working day, the
\* meeting 10:00-11:00 of day 0 as the only event, asked before 08:30.
C3_Scenario ==
    /\ settings.work_day_start = 9 /\ settings.work_day_end = 18
    /\ request.user_query.duration_min = 60
    /\ Events = <<[start |-> 600, end |-> 660, off |-> 0]>>
    /\ now + 30 <= 540
    /\ Generated

SlotsOfDay0 == SelectSeq(free_slots, LAMBDA sl : DateOf(sl.start, sl.off) = 0)

PlainSlot(s, e) == [start |-> s, end |-> e, off |-> 0]

\* C3 as stated: the day's slots are 09:00-10:00 and 11:00-12:00.
C3_TwoSlotsAroundMeeting ==
    C3_Scenario => SlotsOfDay0 = <<PlainSlot(540, 600), PlainSlot(660, 720)>>

\* C3 as amended: with buffers of 10 minutes the day's only slot is
\* 11:10-12:10 (the 50 minutes before 09:50 are too short); the two slots of
\* the claim are generated when both buffers are 0; no slot overlaps the meeting.
C3_SlotsAroundBufferedMeeting ==
    C3_Scenario =>
        /\ settings.event_buffer_before = 10 /\ settings.event_buffer_after = 10
              => SlotsOfDay0 = <<PlainSlot(670, 730)>>
        /\ settings.event_buffer_before = 0 /\ settings.event_buffer_after = 0
              => SlotsOfDay0 = <<PlainSlot(540, 600), PlainSlot(660, 720)>>
        /\ \A i \in 1..Len(free_slots) :
              ~Overlap(free_slots[i].start, free_slots[i].end, 600, 660)

C3_Witness ==
    C3_Scenario /\ settings.event_buffer_before = 10 /\ Len(free_slots) > 0

\* The scenario of C4: searchDays = 1, the settings as shipped, day 0 booked
\* 09:00-23:00 by back-to-back events written in the service's timezone.
BackToBack(evs, from, to) ==
    /\ evs # <<>>
    /\ \A i \in 1..Len(evs) : evs[i].off = 0 /\ from <= evs[i].start /\ evs[i].end <= to
    /\ \E i \in 1..Len(evs) : evs[i].start = from
    /\ \A i \in 1..Len(evs) :
          evs[i].end = to \/ \E j \in 1..Len(evs) : evs[j].start = evs[i].end
    /\ \A i, j \in 1..Len(evs) :
          i # j => ~Overlap(evs[i].start, evs[i].end, evs[j].start, evs[j].end)

C4_Scenario ==
    /\ settings = DefaultSettings
    /\ request.search_days = 1
    /\ BackToBack(Events, 540, 1380)

C4_FirstBusy ==
    IF FutureEvents = {} THEN 1380
    ELSE (CHOOSE t \in {Events[i].start : i \in FutureEvents} :
              \A i \in FutureEvents : t <= Events[i].start) - 10

C4_From == Max2(now + 30, 420)

C5_NotFoundResult ==
    /\ (pc = "generated" /\ free_slots = <<>>) => ENABLED ReturnNotFound
    /\ (pc = "done" /\ free_slots = <<>>) =>
          /\ response.recommendation.slot.start = now
          /\ response.recommendation.slot.end = now
          /\ response.recommendation.score = 0
          /\ Len(response.recommendation.rationale) > 0
          /\ response.alternatives = <<>>
          /\ Len(response.conflicts_found) > 0

C5_Witness == pc = "done" /\ free_slots = <<>> /\ Len(Events) > 0

\* the place of the i-th scored slot in a stable descending order: after the
\* slots of higher score and after the earlier slots of the same score
C6_Place(i) ==
    1 + Cardinality({j \in 1..Len(scored_slots) : scored_slots[j].score > scored_slots[i].score})
      + Cardinality({j \in 1..(i - 1) : scored_slots[j].score = scored_slots[i].score})

\* C6: with at least one slot, every returned score is in [0,1], the
\* recommendation has the highest score of all generated slots, and the
\* recommendation followed by the alternatives is the head of the slots in
\* descending score order, equal scores in generation order, with at most
\* maxAlternatives alternatives.
C6_RankedByScore ==
    (pc = "done" /\ free_slots # <<>>) =>
        /\ Len(scored_slots) = Len(free_slots)
        /\ \A i \in 1..Len(scored_slots) : scored_slots[i].slot = free_slots[i]
        /\ \A p \in 1..Len(Returned) : 0 <= Returned[p].score /\ Returned[p].score <= ScoreOne
        /\ \A i \in 1..Len(scored_slots) :
              response.recommendation.score >= scored_slots[i].score
        /\ Len(response.alternatives)
              = Min2(request.max_alternatives, Len(scored_slots) - 1)
        /\ \A p \in 1..(Len(Returned) - 1) : Returned[p].score >= Returned[p + 1].score
        /\ \A i \in 1..Len(scored_slots) :
              C6_Place(i) <= Len(Returned) => Returned[C6_Place(i)] = scored_slots[i]

\* three slots ranked, two of them with the same score, the later-generated
\* of the two ranked after the other
C6_Witness ==
    /\ pc = "done" /\ Len(scored_slots) >= 3
    /\ \E i, j \in 1..Len(scored_slots) :
          /\ i < j /\ scored_slots[i].score = scored_slots[j].score
          /\ C6_Place(j) <= Len(Returned)
    /\ Len(scored_slots) - 1 > request.max_alternatives

-----------------------------------------------------------------------------
(* Claims about the time-preference component                              *)

Abs(x) == IF x < 0 THEN -x ELSE x

\* |h - center| of the window of pref, doubled to stay in whole minutes
C7_Distance(h) == Abs(2 * h - (WindowStart(pref.window) + WindowEnd(pref.window)))

\* C7: of two slot starts, the one strictly closer to the center of the
\* category's habit window has a time-preference component that is not lower.
\* The code breaks it for a window that runs over midnight (23:00-00:30):
\* no hour is inside it and the distance is taken to 23:00 from below or to
\* 00:30 from above, so 22:30 scores 23/24 and 12:00 scores 1/12.
C7_CloserIsNotLower ==
    (pref.scored /\ C7_Distance(pref.h2) < C7_Distance(pref.h1))
        => pref.tp2 >= pref.tp1

-----------------------------------------------------------------------------
(* Claims about the importer                                               *)

Imported == imports > 0
Output == import_response.events

\* the window of C8 at the instant of the last call, for daysLimit = d
C8_WeekStart == (import_call.at \div (7 * MinPerDay)) * (7 * MinPerDay)
C8_WindowStart(d) == C8_WeekStart - d * MinPerDay
C8_WindowEnd(d) == C8_WeekStart + (7 + d) * MinPerDay

\* a raw event of the request that is read without expansion and starts at
\* the instant t
C8_PlainRawAt(t) ==
    {i \in 1..Len(import_request.events) :
        /\ NormalizeEvent(import_request.events[i]) # <<>>
        /\ NormalizeEvent(import_request.events[i])[1].start.t = t
        /\ (import_request.events[i].rrule = <<>> \/ ~import_request.expand_recurring)}

\* C8: with daysLimit = d every event of the import output starts inside
\* [weekStart - d days, weekStart + (7 + d) days], weekStart being Monday
\* 00:00 of the week of the call; with d = 0 an event one day before
\* weekStart is absent and one a day after weekStart is present.
\* The code breaks it when the answer comes from the import cache: the cache
\* key holds neither the date nor the week, so an entry stored on Sunday is
\* served on Monday with the events of the week before.
C8_OutputInsideWindow ==
    (Imported /\ import_request.days_limit # <<>>) =>
        LET d == import_request.days_limit[1]
        IN /\ \A i \in 1..Len(Output) :
                 /\ C8_WindowStart(d) <= Output[i].start.t
                 /\ Output[i].start.t <= C8_WindowEnd(d)
           /\ d = 0 =>
                 /\ \A i \in 1..Len(Output) : Output[i].start.t # C8_WeekStart - MinPerDay
                 /\ C8_PlainRawAt(C8_WeekStart + MinPerDay) # {}
                       => \E i \in 1..Len(Output) :
                             Output[i].start.t = C8_WeekStart + MinPerDay

\* C9: when the rule is expanded, every occurrence starts in
\* [windowStart, windowEnd) and has the master's duration, summary,
\* description and attendees.
C9_OccurrencesInsideWindow ==
    (expand.done /\ expand.rrule_data.ok) =>
        \A i \in 1..Len(expand.events) :
            /\ expand.window.start <= expand.events[i].start.t
            /\ expand.events[i].start.t < expand.window.end
            /\ expand.events[i].end.t - expand.events[i].start.t
                  = expand.end_dt.t - expand.start_dt.t
            /\ expand.events[i].summary = expand.summary
            /\ expand.events[i].description = expand.description
            /\ expand.events[i].attendees = expand.attendees

\* a rule of three occurrences was expanded and the window cut some of them
C9_Witness ==
    /\ expand.done
    /\ expand.rrule_data.ok
    /\ expand.rrule_data.count = 3
    /\ expand.events # <<>>
    /\ Len(expand.events) < 3

\* the identity of an event: calendar, start, end (as isoformat() writes
\* them) and summary
C10_Identity(e) == <<e.calendar, IsoFormat(e.start), IsoFormat(e.end), e.summary>>

\* the events of seq that are the first of their identity, in the order of seq
RECURSIVE C10_Firsts(_, _)
C10_Firsts(seq, i) ==
    IF i > Len(seq) THEN <<>>
    ELSE (IF \A j \in 1..(i - 1) : C10_Identity(seq[j]) # C10_Identity(seq[i])
          THEN <<seq[i]>> ELSE <<>>)
         \o C10_Firsts(seq, i + 1)

\* C10: deduplication keeps, in input order, exactly the first event of each
\* identity; applied to its own output it returns it unchanged; the import
\* output holds one event per identity.
C10_DedupKeepsFirst ==
    Imported =>
        /\ ~import_call.from_cache =>
              /\ import_call.unique = C10_Firsts(import_call.filtered, 1)
              /\ \A i \in 1..Len(import_call.filtered) :
                    Cardinality({k \in 1..Len(import_call.unique) :
                        C10_Identity(import_call.unique[k])
                            = C10_Identity(import_call.filtered[i])}) = 1
              /\ DeduplicateEvents(import_call.unique) = import_call.unique
              /\ Len(Output) = Len(import_call.unique)
        /\ \A i, j \in 1..Len(Output) :
              C10_Identity(Output[i]) = C10_Identity(Output[j]) => i = j

\* two entries of one identity and different descriptions were imported and
\* the output holds the first of them only
C10_Witness ==
    /\ Imported
    /\ ~import_call.from_cache
    /\ \E i, j \in 1..Len(import_call.filtered) :
          /\ i < j
          /\ C10_Identity(import_call.filtered[i]) = C10_Identity(import_call.filtered[j])
          /\ import_call.filtered[i].description # import_call.filtered[j].description
          /\ \E k \in 1..Len(Output) :
                /\ C10_Identity(Output[k]) = C10_Identity(import_call.filtered[i])
                /\ Output[k].description = import_call.filtered[i].description

\* C11: every event of the import output ends after it starts, whatever
\* input form it came from.
\* The code breaks it for the calendar text: _parse_ics takes DTSTART and
\* DTEND as they are written (only _normalize_event, for the raw list, moves
\* an end that is not after the start to start + 1 hour), so a VEVENT whose
\* DTEND is before its DTSTART, or an all-day VEVENT whose DTEND is its own
\* day, reaches the output with end <= start.
C11_EndAfterStart ==
    Imported => \A i \in 1..Len(Output) : Output[i].end.t > Output[i].start.t

\* the window of the last call
C12_Window == ImportWindow(import_request, import_call.at)

\* begins strictly inside the window of the last call and ends after it begins
C12_WellInside(start_dt, end_dt) ==
    /\ C12_Window.start < start_dt.t
    /\ start_dt.t < C12_Window.end
    /\ start_dt.t < end_dt.t

\* the output holds an event of that calendar, start and summary
C12_InOutput(calendar, start_dt, summary) ==
    \E k \in 1..Len(Output) :
        /\ Output[k].calendar = calendar
        /\ Output[k].start = start_dt
        /\ Output[k].summary = summary

\* the raw events without a rule whose start and end parse
C12_GoodRaw ==
    {i \in 1..Len(import_request.events) :
        /\ import_request.events[i].rrule = <<>>
        /\ ParseDatetimeString(import_request.events[i].start) # <<>>
        /\ ParseDatetimeString(import_request.events[i].end) # <<>>}

\* the components without a rule that have a DTSTART and whose values can be read
C12_GoodComponents ==
    IF import_request.ics_content = <<>> THEN {}
    ELSE {j \in 1..Len(import_request.ics_content[1].components) :
            LET c == import_request.ics_content[1].components[j]
            IN c.rrule = <<>> /\ c.dtstart # <<>> /\ ~ComponentRaises(c)}

\* C12: a malformed item never costs the other items their place in the
\* output: every well-formed item that lies in the window is in the output
\* of a computed import, whatever precedes or follows it in the request.
\* The code breaks it for the calendar text: an exception raised while one
\* VEVENT is read leaves the loop of _parse_ics, and the VEVENTs after it are
\* never read.
C12_GoodItemsSurvive ==
    (Imported /\ ~import_call.from_cache) =>
        /\ \A i \in C12_GoodRaw :
              LET raw == import_request.events[i]
                  start_dt == ParseDatetimeString(raw.start)[1]
                  end_dt == ParseDatetimeString(raw.end)[1]
              IN C12_WellInside(start_dt, end_dt)
                    => C12_InOutput(raw.calendar, start_dt, raw.summary)
        /\ \A j \in C12_GoodComponents :
              LET c == import_request.ics_content[1].components[j]
              IN C12_WellInside(ComponentStart(c), ComponentEnd(c))
                    => C12_InOutput(import_request.ics_content[1].calname,
                                    ComponentStart(c), c.summary)


-----------------------------------------------------------------------------
(* Claims about the enricher                                               *)

\* an enrich_events call has been made
Enriched == enrichments > 0

\* the last call asked the classifier service about every event
C13_ClassifierAsked ==
    Enriched /\ ~enrich_call.from_cache /\ enrich_request.use_llm /\ SettingsUseLlm

\* the classifier's answer is not {type in the closed set, confidence in 0..1}
C13_Deviates(outcome) ==
    ~(/\ outcome.kind = "answer"
      /\ outcome.type \in EventTypeSet
      /\ outcome.conf_kind = "number"
      /\ 0 <= outcome.conf /\ outcome.conf <= ConfOne)

\* C13: with the external classifier enabled, enrich_events does not raise
\* whatever the classifier does; the response holds one enriched event per
\* input event, in input order, and an event whose classifier outcome
\* deviates from {type in the closed category set, confidence in 0..1} has
\* category 'other' and confidence 0.
C13_ClassifierFailureIsOther ==
    C13_ClassifierAsked =>
        /\ ~enrich_call.raised
        /\ Len(enrich_response.events) = Len(enrich_request.events)
        /\ \A i \in 1..Len(enrich_request.events) :
              /\ enrich_response.events[i].summary = enrich_request.events[i].summary
              /\ enrich_response.events[i].start = enrich_request.events[i].start
              /\ C13_Deviates(classifier[i]) =>
                    /\ enrich_response.events[i].event_type = "other"
                    /\ enrich_response.events[i].enrich_attrs.category_confidence = 0

-----------------------------------------------------------------------------
(* Claims about the importer's window tests                                *)

\* the raw events that take the non-expanding path: start and end parse,
\* and there is no rule or no expansion was asked for
C19_SingleRaw ==
    {i \in 1..Len(import_request.events) :
        /\ import_request.events[i].rrule = <<>> \/ ~import_request.expand_recurring
        /\ ParseDatetimeString(import_request.events[i].start) # <<>>
        /\ ParseDatetimeString(import_request.events[i].end) # <<>>}

\* the components that take the non-expanding path: the loop of _parse_ics
\* reaches them, they have a DTSTART, and there is no rule or no expansion
\* was asked for
C19_SingleComponents ==
    IF import_request.ics_content = <<>> THEN {}
    ELSE IF ~import_request.ics_content[1].parse_ok THEN {}
    ELSE LET components == import_request.ics_content[1].components
         IN {j \in 1..Len(components) :
                /\ components[j].dtstart # <<>>
                /\ components[j].rrule = <<>> \/ ~import_request.expand_recurring
                /\ \A k \in 1..j : components[k].dtstart # <<>>
                                      => ~ComponentRaises(components[k])}

\* C19: on the non-expanding path a single event is in the output of a
\* computed import if and only if its start lies in the closed interval
\* [windowStart, windowEnd], for a raw event as well as for a VEVENT of the
\* calendar text; an event that starts exactly at windowEnd is kept.
C19_KeptIffStartInWindow ==
    (Imported /\ ~import_call.from_cache) =>
        /\ \A i \in C19_SingleRaw :
              LET raw == import_request.events[i]
                  start_dt == ParseDatetimeString(raw.start)[1]
              IN C12_InOutput(raw.calendar, start_dt, raw.summary)
                    <=> StartInWindow(start_dt, C12_Window.start, C12_Window.end)
        /\ \A j \in C19_SingleComponents :
              LET c == import_request.ics_content[1].components[j]
              IN C12_InOutput(import_request.ics_content[1].calname,
                              ComponentStart(c), c.summary)
                    <=> StartInWindow(ComponentStart(c), C12_Window.start, C12_Window.end)

\* the raw events whose rule cannot be read, in a request that asks for
\* expansion
C20_FallbackRaw ==
    {i \in 1..Len(import_request.events) :
        /\ import_request.expand_recurring
        /\ import_request.events[i].rrule # <<>>
        /\ ParseDatetimeString(import_request.events[i].start) # <<>>
        /\ ParseDatetimeString(import_request.events[i].end) # <<>>
        /\ ~import_request.events[i].rrule[1].ok}

\* C20: when expansion is asked for and the rule cannot be read, the output
\* of a computed import holds the master occurrence if and only if the
\* master intersects the window, end-exclusively (end > windowStart and
\* start < windowEnd); a master that starts before windowStart and ends
\* inside the window is in the output.
C20_MasterIffIntersects ==
    (Imported /\ ~import_call.from_cache) =>
        \A i \in C20_FallbackRaw :
            LET normalized == NormalizeEvent(import_request.events[i])[1]
            IN C12_InOutput(normalized.calendar, normalized.start, normalized.summary)
                  <=> Intersects(normalized.start, normalized.end,
                                 C12_Window.start, C12_Window.end)

-----------------------------------------------------------------------------
(* Claims about the cache service                                          *)

\* caller c has made a call and the call has ended
Finished(c) == callers[c].calls > 0 /\ callers[c].pc = "idle"

\* C14: cache round trip.  A lookup of an input hash that is made after a
\* store under that hash was completed, before the stored entry's expiry
\* and within the max age, with no write under that hash in between, is a
\* hit and returns a result equal to the result that was stored.
C14_RoundTrip ==
    \A c \in Callers :
        callers[c].promised # <<>> =>
            /\ callers[c].hit
            /\ callers[c].returned = <<callers[c].promised[1].result_data>>

\* the entry a hit returned was, at the instant of the lookup, neither past
\* its expiry nor older than the max age
C15_HitIsFresh(c) ==
    callers[c].hit =>
        /\ callers[c].lookup_at <= callers[c].hit_entry[1].expires_at
        /\ callers[c].lookup_at - callers[c].hit_entry[1].created_at
              <= MaxAgeHours * MinPerHour

\* caller c's last call ended without an exception after its lookup missed
C15_Missed(c) ==
    /\ Finished(c)
    /\ ~callers[c].raised
    /\ callers[c].verdict \in {"missing", "expired", "too_old"}

C16_IoFailureIsMiss ==
    \A c \in Callers :
        (/\ Finished(c)
         /\ \/ callers[c].seen.kind \in {"unreadable", "bad_utf8", "not_object", "torn", "empty"}
            \/ callers[c].write_failed)
            => /\ ~callers[c].raised
               /\ callers[c].computes = 1
               /\ callers[c].returned = callers[c].result

\* the last calls of the two callers overlapped, asked for the same input
\* hash, both missed, and neither met an I/O failure
C17_BothComputed ==
    /\ \A c \in Callers :
          /\ Finished(c)
          /\ ~callers[c].alone
          /\ ~callers[c].raised
          /\ ~callers[c].write_failed
          /\ callers[c].verdict \in {"missing", "expired", "too_old"}
    /\ \A c, d \in Callers : callers[c].key = callers[d].key

\* C17: two concurrent get_or_cache calls with identical input, under every
\* interleaving of their lookup, compute and store steps: both callers
\* return the computed result and, once both have finished, the store holds
\* exactly one entry for the key, with the result one of them computed
\* (last writer wins).
C17_LastWriterWins ==
    C17_BothComputed =>
        /\ \A c \in Callers : callers[c].returned = callers[c].result
        /\ \E c \in Callers : Holds(cache_file, callers[c].key, callers[c].result[1])

\* C18: the cache file is replaced as a whole: a lookup that reads the file
\* while another caller is writing it sees the store from before the write
\* or the store after it, never an empty or partly written file.
C18_LookupSeesWholeStore ==
    \A c \in Callers :
        callers[c].seen # <<>> =>
            ~(callers[c].seen.writing /\ callers[c].seen.kind \in {"empty", "torn"})

-----------------------------------------------------------------------------
(* Claims about the working window of the generated slots                  *)

\* the day of the search a slot starts on, counted from the day of `now`
C21_DayOf(slot) == DateOf(slot.start, 0) - DateOf(now, 0)

\* the slot starts at or after the start of the working day, and on day 0
\* at least 30 minutes after now
C21_StartsInside(slot) ==
    /\ C21_DayOf(slot) \in 0..(request.search_days - 1)
    /\ slot.start >= Combine(DateOf(slot.start, 0), settings.work_day_start)
    /\ C21_DayOf(slot) = 0 => slot.start >= now + 30

\* the slot ends at or before the end of the working day it starts on
C21_EndsInside(slot) ==
    slot.end <= Combine(DateOf(slot.start, 0), settings.work_day_end)

\* C21: every generated free slot lies inside the working window of its
\* day: it starts at or after work_day_start, on day 0 at or after now + 30
\* minutes, and it ends at or before work_day_end.
C21_SlotsInsideWorkingWindow ==
    Generated =>
        \A i \in 1..Len(free_slots) :
            C21_StartsInside(free_slots[i]) /\ C21_EndsInside(free_slots[i])

-----------------------------------------------------------------------------
(* Claims about the time-preference component                              *)

\* no habit window exists for the query's category: there is no profile, the
\* query names no category, or the profile has no window for the category
C22_NoWindow ==
    \/ ~request.history_habits.present
    \/ request.user_query.event_type = "none"
    \/ WindowsFor(request.user_query, request.history_habits) = {}

\* the slot's hour falls in the band the caller stated
C22_InBand(slot) ==
    LET hour == HourOf(slot.start, slot.off)
        preferred_time == request.user_query.preferred_time
    IN \/ preferred_time = "morning" /\ hour \in 6..11
       \/ preferred_time = "afternoon" /\ hour \in 12..16
       \/ preferred_time = "evening" /\ hour \in 17..21

\* slots were scored for a query that has no habit window
C22_Scored == pc = "done" /\ scored_slots # <<>> /\ C22_NoWindow

\* C22: whenever no habit window exists for the query's category (no habit
\* profile, no category in the query, or a profile without a window for
\* that category) the time-preference component of a slot is 1.0 when the
\* slot's hour falls in the stated morning/afternoon/evening band and 0.5
\* otherwise; it is never 0.
C22_FallbackIsCoarse ==
    C22_Scored =>
        \A i \in 1..Len(scored_slots) :
            scored_slots[i].time_pref =
                IF C22_InBand(scored_slots[i].slot) THEN One ELSE One \div 2

-----------------------------------------------------------------------------
(* Claims about the analyzer                                               *)

\* the last analyze_habits call ran _compute_analyze
Analysed == analyses > 0 /\ ~analyze_call.from_cache

\* the relevant events of a category in the last call
C23_Samples(event_type) == Len(TypeEvents(analyze_call.relevant_events, event_type))

\* end - start of a TimeWindow, in minutes
C23_Width(window) == (window.eh * 60 + window.em) - (window.sh * 60 + window.sm)

\* C23: for every category that has at least min_sample_size relevant
\* events (min_sample_size >= 1) the inferred time window is at least one
\* hour wide, its confidence lies in [0, 1], and the confidence is 0.3 when
\* the category has one or two samples.
C23_InferredWindowIsWide ==
    (Analysed /\ analyze_request.min_sample_size >= 1) =>
        \A event_type \in EventTypeSet :
            C23_Samples(event_type) >= analyze_request.min_sample_size =>
                /\ C23_Width(analyze_response.default_windows[event_type]) >= 60
                /\ analyze_response.default_windows[event_type].confidence >= 0
                /\ analyze_response.default_windows[event_type].confidence <= WindowConfOne
                /\ C23_Samples(event_type) \in {1, 2} =>
                      analyze_response.default_windows[event_type].confidence
                          = (3 * WindowConfOne) \div 10

\* the built-in window of a category, as settings.default_time_windows
\* gives it
C24_BuiltIn(event_type) ==
    [sh |-> DefaultTimeWindows(event_type)[1], sm |-> 0,
     eh |-> DefaultTimeWindows(event_type)[2], em |-> 0]

\* C24: analyze returns a time window for every category of the closed
\* set; for a category with fewer than min_sample_size relevant events the
\* window is the category's built-in default with confidence 0 and a
\* sample size equal to the number of relevant events of the category.
C24_DefaultKeepsSampleSize ==
    Analysed =>
        /\ DOMAIN analyze_response.default_windows = EventTypeSet
        /\ \A event_type \in EventTypeSet :
              C23_Samples(event_type) < analyze_request.min_sample_size =>
                  /\ analyze_response.default_windows[event_type].sh = C24_BuiltIn(event_type).sh
                  /\ analyze_response.default_windows[event_type].sm = C24_BuiltIn(event_type).sm
                  /\ analyze_response.default_windows[event_type].eh = C24_BuiltIn(event_type).eh
                  /\ analyze_response.default_windows[event_type].em = C24_BuiltIn(event_type).em
                  /\ analyze_response.default_windows[event_type].confidence = 0
                  /\ analyze_response.default_windows[event_type].sample_size
                         = C23_Samples(event_type)

\* a category with two relevant events, fewer than min_sample_size, got its
\* default window, while an event of the request fell outside the analysis
\* range
C24_Witness ==
    /\ Analysed
    /\ analyze_request.min_sample_size > 2
    /\ C23_Samples("work") = 2
    /\ Len(analyze_call.relevant_events) < Len(analyze_request.events)
    /\ analyze_response.default_windows["work"].sample_size = 2
    /\ analyze_response.default_windows["work"].sh = 9

\* the start of an event lies in the trailing 7 days before the instant of
\* the last call and inside its analysis range
C25_InTrailingWeek(event) ==
    /\ analyze_call.at - 7 * MinPerDay <= event.start.t
    /\ event.start.t <= analyze_call.at
    /\ analyze_call.at - analyze_request.analysis_weeks * MinPerWeek <= event.start.t

\* C25: every event counted in the dashboard aggregates has its start
\* within the trailing 7 days before now (now - 7 days <= start <= now) and
\* inside the analysis range; an event that starts after now is not
\* counted, so total_events is the number of the request's events in that
\* window.
C25_AggregatesOverTrailingWeek ==
    Analysed =>
        /\ \A i \in 1..Len(analyze_call.week_events) :
              C25_InTrailingWeek(analyze_call.week_events[i])
        /\ analyze_response.dashboard_aggregates.total_events
              = Cardinality({i \in 1..Len(analyze_request.events) :
                                C25_InTrailingWeek(analyze_request.events[i])})

-----------------------------------------------------------------------------
(* Claims about the priority of an enriched event                          *)

\* the start of the event, in minutes after its local midnight
C26_StartMinute(event) == MinuteOfDay(event.start.t, event.start.off)

\* the rule of the claim: an urgency keyword, or more than 5 attendees, or
\* a start before 08:00 or after 20:00 without a mention of routine
C26_High(event) ==
    \/ PriorityKeywords \cap event.text # {}
    \/ Len(event.attendees) > 5
    \/ /\ C26_StartMinute(event) < 8 * 60 \/ C26_StartMinute(event) > 20 * 60
       /\ "routine" \notin event.text

\* C26: the priority of an enriched event is 'high' if and only if its
\* text contains an urgency keyword, or it has more than 5 attendees, or it
\* starts before 08:00 or after 20:00 and its text does not mention
\* routine; otherwise it is 'regular'.  A start at 20:30 counts as after
\* 20:00.
C26_PriorityRule ==
    (Enriched /\ ~enrich_call.raised) =>
        \A i \in 1..Len(enrich_request.events) :
            enrich_response.events[i].priority_type
                = IF C26_High(enrich_request.events[i]) THEN "high" ELSE "regular"

-----------------------------------------------------------------------------
(* Claims about concurrent stores                                          *)

\* caller c made one call, its lookup found no entry it could use and
\* deleted nothing, and its store was completed
C27_Saved(c) ==
    /\ Finished(c)
    /\ callers[c].calls = 1
    /\ callers[c].verdict \in {"missing", "too_old"}
    /\ ~callers[c].raised
    /\ ~callers[c].write_failed

\* both callers have completed a store, under two different keys
C27_BothSaved ==
    /\ \A c \in Callers : C27_Saved(c)
    /\ \A c, d \in Callers : c # d => callers[c].key # callers[d].key

\* C27: two save operations under two different keys of one stage, each a
\* load of the stage file, an insert and a rewrite of the file, under every
\* interleaving: once both have finished the file holds the entry of either
\* key, and an entry that a save found in the file under another key is
\* still there.
C27_NoEntryLost ==
    C27_BothSaved =>
        /\ \A c \in Callers : Holds(cache_file, callers[c].key, callers[c].result[1])
        /\ \A c \in Callers :
              \A e \in callers[c].loaded :
                  (\A d \in Callers : e.input_hash # callers[d].key) =>
                      /\ cache_file.kind = "json"
                      /\ EntryOf(cache_file.entries, e.input_hash) # <<>>

-----------------------------------------------------------------------------
(* Claims about the transparency of the import cache                       *)

\* the event list a direct computation returns at the instant of the last
\* call
C28_Direct == ComputeImport(import_request, import_call.at).response_data.events

\* C28: the import cache is transparent: an import call served from the
\* cache returns the event list that a direct computation, with the cache
\* bypassed, returns at that moment, also when the entry was stored in one
\* calendar week and is looked up in the next.
C28_CacheIsTransparent ==
    (Imported /\ import_call.from_cache) => Output = C28_Direct

-----------------------------------------------------------------------------
(* Claims about background tasks                                            *)

Terminal(status) == status \in {"cancelled", "completed", "failed"}

\* the status, progress and current stage of a stored task
C29_Shown(task) == <<task.status, task.progress, task.current_stage>>

\* a step leaves what is shown of the task t, where the file still holds the
\* task, as it was
C29_Kept(t) == t \in DOMAIN tasks_file' => C29_Shown(tasks_file'[t]) = C29_Shown(tasks_file[t])

\* C29: the terminal states of a background task are absorbing: once the
\* stored status of a task is cancelled, completed or failed, no step of the
\* pipeline and no cancel_task call changes its status, progress or current
\* stage.
C29_TerminalIsAbsorbing ==
    [][\A t \in DOMAIN tasks_file : Terminal(tasks_file[t].status) => C29_Kept(t)]_vars

-----------------------------------------------------------------------------
(* Claims about the key of the content cache                               *)

\* the keys of both requests were computed
C30_BothKeyed == key_params # <<>> /\ cache_key[1] # <<>> /\ cache_key[2] # <<>>

\* the two requests differ in the time zone, the expand flag, the horizon,
\* the days limit or the external-classifier flag
C30_ParamsDiffer ==
    \/ key_params[1].timezone # key_params[2].timezone
    \/ key_params[1].expand_recurring # key_params[2].expand_recurring
    \/ key_params[1].horizon_days # key_params[2].horizon_days
    \/ key_params[1].days_limit # key_params[2].days_limit
    \/ key_params[1].use_llm # key_params[2].use_llm

\* C30: compute_cache_key tells apart two requests that differ in the time
\* zone, the expand flag, the horizon, the days limit (unset against 0
\* included) or the external-classifier flag, and gives identical inputs
\* the same key.
C30_KeyDistinguishes ==
    C30_BothKeyed =>
        /\ C30_ParamsDiffer => cache_key[1] # cache_key[2]
        /\ key_params[1] = key_params[2] => cache_key[1] = cache_key[2]

====
